---- MODULE Spec2Model ----
(***************************************************************************)
(* Channel-layer backend of fastapi-channel: the group index, the channel  *)
(* name generator, the in-memory pub/sub queues and the connection         *)
(* registry (core/backends/base.py, core/backends/memory.py).              *)
(*                                                                         *)
(* Callers are asyncio tasks.  A call guarded by `async with self._lock`   *)
(* is three steps: the call is made (Invoke...), the lock is acquired      *)
(* (Acquire), and the body runs and releases the lock (...Body).  A call   *)
(* whose body holds no lock and no suspension point is one step.           *)
(***************************************************************************)
EXTENDS Integers, Sequences, FiniteSets, TLC

\* ------------------------------------------------------------------ bounds
MaxCounter == 4      \* new_channel calls explored
MaxTime == 2         \* event-loop clock ticks (milliseconds) explored
MaxQueueLen == 2     \* messages held by one asyncio.Queue
MaxClock == 50       \* seconds of time.time() explored
MaxChecks == 13      \* rate-limiter checks recorded in one burst
MaxAdvances == 2     \* token periods one burst is followed over
MaxSent == 2         \* error responses sent on one connection
MaxBytes == 2        \* bytes received on one connection
MaxAge == 6          \* seconds between a Message's construction and is_expired
MaxTTL == 5          \* the largest ttl_seconds of a Message
MaxDisconnects == 2  \* disconnect calls made on one connection
MaxWindowChecks == 5 \* rate-limiter checks recorded when counting per interval
MaxWindowClock == 5  \* seconds of time.time() explored when counting per interval
MaxDelivery == 3     \* publish calls followed within one subscription

\* ------------------------------------------------------------- input sets
Tasks == {"t1", "t2"}
Groups == {"g1", "g2"}
Channels == {"c1", "c2", "c3"}
GroupSpecChannels == {"c1", "c2"}
Messages == {"m1", "m2"}
Connections == {"k1", "k2"}
Users == {"u1", "u2"}
None == "None"
Prefixes == {<<"c">>, <<"c", ".", "0">>}
NoTask == "none"
NoExc == "none"

\* --------------------------------------------------------- python helpers
EmptyDict == <<>>
DictSet(d, k, v) == [x \in DOMAIN d \cup {k} |-> IF x = k THEN v ELSE d[x]]
DictDel(d, k) == [x \in DOMAIN d \ {k} |-> d[x]]
DictGet(d, k, default) == IF k \in DOMAIN d THEN d[k] ELSE default

Digit(n) == CASE n = 0 -> "0" [] n = 1 -> "1" [] n = 2 -> "2" [] n = 3 -> "3"
              [] n = 4 -> "4" [] n = 5 -> "5" [] n = 6 -> "6" [] n = 7 -> "7"
              [] n = 8 -> "8" [] n = 9 -> "9"
RECURSIVE Str(_)
Str(n) == IF n < 10 THEN <<Digit(n)>> ELSE Str(n \div 10) \o <<Digit(n % 10)>>

VARIABLES
    groups,            \* BaseBackend.groups: group -> set of channels
    subscriptions,     \* BaseBackend.subscriptions
    lock,              \* BaseBackend._lock: the task holding it, or NoTask
    channel_counter,   \* BaseBackend._channel_counter
    now_ms,            \* int(loop.time() * 1000)
    channels,          \* MemoryBackend.channels: channel -> queue object
    listeners,         \* MemoryBackend.listeners: channel -> set of queue objects
    queues,            \* the asyncio.Queue objects alive: queue object -> messages
    delivery,          \* history, while delivery.on: per subscribed channel, the
                       \* messages published to it and those received from it
                       \* since its subscription began, in order
    registry_connections,       \* MemoryBackend._registry_connections
    registry_connection_data,   \* MemoryBackend._registry_connection_data
    registry_user_connections,  \* MemoryBackend._registry_user_connections
    calls,             \* per task: the call in progress
    ret,               \* the most recently completed call and its outcome
    lastCall,          \* history: per (group, channel) the last completed add/discard
    issued,            \* history: the names new_channel returned, in order
    addedUnder,        \* history: <<connection, user>> added and not since removed
    limiter,           \* TokenBucketRateLimiter: [rate, window, burst]
    buckets,           \* TokenBucketRateLimiter.buckets: key -> [last_check, tokens]
    time_time,         \* time.time(), in whole seconds
    log,               \* history: the checks made so far, while log.on
    last_allowed,      \* history: per key, when a check last consumed a token
    rate_limit_enabled,  \* RateLimitMiddleware.enabled
    middleware_stack,  \* the consumer's stages, in their configured order
    connection,        \* per connection: user_id, bytes_received, last_heartbeat,
                       \* last_activity, groups (the mirror), state, and closed (the
                       \* codes its websocket was closed with)
    sent,              \* per connection: what websocket.send_json was given, in order
    consumers          \* per connection, its consumer object: self.groups and
                       \* history: how often on_disconnect was called

vars == <<groups, subscriptions, lock, channel_counter, now_ms, channels,
          listeners, queues, delivery, registry_connections, registry_connection_data,
          registry_user_connections, calls, ret, lastCall, issued, addedUnder,
          limiter, buckets, time_time, log, last_allowed, rate_limit_enabled,
          middleware_stack, connection, sent, consumers>>

memoryVars == <<channels, listeners, queues, delivery>>

registryVars == <<registry_connections, registry_connection_data,
                  registry_user_connections, addedUnder>>

limiterVars == <<limiter, buckets, time_time, log, last_allowed>>

consumerVars == <<rate_limit_enabled, middleware_stack, connection, sent, consumers>>

pipelineVars == <<limiterVars, consumerVars>>

backendVars == <<groups, subscriptions, lock, channel_counter, now_ms, memoryVars,
                 registryVars, calls, lastCall, issued>>

\* BaseConsumer.__init__
NewConsumer == [groups |-> {}, on_disconnect_calls |-> 0]

Idle == [op |-> "idle"]
Pending(op, args) == [op |-> op, at |-> "lock", args |-> args]

\* ------------------------------------------------------------ group index
\* Results are [groups |-> the index after the call, exc |-> exception raised].
group_add_overwrite(G, group, channel) ==
    [groups |-> DictSet(G, group, {channel}), exc |-> NoExc]

group_add(G, group, channel) ==
    LET G1 == IF group \notin DOMAIN G THEN DictSet(G, group, {}) ELSE G
    IN [groups |-> [G1 EXCEPT ![group] = @ \cup {channel}], exc |-> NoExc]

group_discard_keep_key(G, group, channel) ==
    IF group \in DOMAIN G
    THEN [groups |-> [G EXCEPT ![group] = @ \ {channel}], exc |-> NoExc]
    ELSE [groups |-> G, exc |-> NoExc]

group_discard_remove(G, group, channel) ==
    IF group \in DOMAIN G
    THEN IF channel \notin G[group]
         THEN [groups |-> G, exc |-> "KeyError"]
         ELSE LET G1 == [G EXCEPT ![group] = @ \ {channel}]
              IN [groups |-> IF G1[group] = {} THEN DictDel(G1, group) ELSE G1,
                  exc |-> NoExc]
    ELSE [groups |-> G, exc |-> NoExc]

\* group_discard that leaves the index as it was
group_discard_nothing(G, group, channel) == [groups |-> G, exc |-> NoExc]

group_discard(G, group, channel) ==
    IF group \in DOMAIN G
    THEN LET G1 == [G EXCEPT ![group] = @ \ {channel}]
         IN [groups |-> IF G1[group] = {} THEN DictDel(G1, group) ELSE G1,
             exc |-> NoExc]
    ELSE [groups |-> G, exc |-> NoExc]

get_group_channels(G, group) ==
    [value |-> DictGet(G, group, {}), exc |-> NoExc]

\* --------------------------------------------------------------- new_channel
next_counter_stuck(n) == n

next_counter(n) == n + 1

channel_name(prefix, ms, counter) ==
    prefix \o <<".">> \o Str(ms) \o <<".">> \o Str(counter)

\* ------------------------------------------------------------------ actions
Acquire(t) ==
    /\ calls[t].op # "idle"
    /\ calls[t].at = "lock"
    /\ lock = NoTask
    /\ lock' = t
    /\ calls' = [calls EXCEPT ![t].at = "body"]
    /\ UNCHANGED <<pipelineVars, registryVars, groups, subscriptions, channel_counter, now_ms, memoryVars, ret, lastCall, issued>>

InBody(t, op) ==
    /\ calls[t].op = op
    /\ calls[t].at = "body"
    /\ lock = t

Done(t) ==
    /\ lock' = NoTask
    /\ calls' = [calls EXCEPT ![t] = Idle]

InvokeGroupAdd(t, group, channel) ==
    /\ calls[t] = Idle
    /\ calls' = [calls EXCEPT ![t] = Pending("group_add", [group |-> group, channel |-> channel])]
    /\ UNCHANGED <<pipelineVars, registryVars, groups, subscriptions, lock, channel_counter, now_ms, memoryVars, ret, lastCall, issued>>

GroupAddBody(t) ==
    /\ InBody(t, "group_add")
    /\ LET a == calls[t].args
           r == group_add(groups, a.group, a.channel)
       IN /\ groups' = r.groups
          /\ ret' = [op |-> "group_add", args |-> a, exc |-> r.exc, before |-> groups]
          /\ lastCall' = [lastCall EXCEPT ![<<a.group, a.channel>>] = "add"]
    /\ Done(t)
    /\ UNCHANGED <<pipelineVars, registryVars, subscriptions, channel_counter, now_ms, memoryVars, issued>>

InvokeGroupDiscard(t, group, channel) ==
    /\ calls[t] = Idle
    /\ calls' = [calls EXCEPT ![t] = Pending("group_discard", [group |-> group, channel |-> channel])]
    /\ UNCHANGED <<pipelineVars, registryVars, groups, subscriptions, lock, channel_counter, now_ms, memoryVars, ret, lastCall, issued>>

GroupDiscardBody(t) ==
    /\ InBody(t, "group_discard")
    /\ LET a == calls[t].args
           r == group_discard(groups, a.group, a.channel)
       IN /\ groups' = r.groups
          /\ ret' = [op |-> "group_discard", args |-> a, exc |-> r.exc, before |-> groups]
          /\ lastCall' = [lastCall EXCEPT ![<<a.group, a.channel>>] = "discard"]
    /\ Done(t)
    /\ UNCHANGED <<pipelineVars, registryVars, subscriptions, channel_counter, now_ms, memoryVars, issued>>

InvokeGroupChannels(t, group) ==
    /\ calls[t] = Idle
    /\ calls' = [calls EXCEPT ![t] = Pending("group_channels", [group |-> group])]
    /\ UNCHANGED <<pipelineVars, registryVars, groups, subscriptions, lock, channel_counter, now_ms, memoryVars, ret, lastCall, issued>>

GroupChannelsBody(t) ==
    /\ InBody(t, "group_channels")
    /\ LET a == calls[t].args
           r == get_group_channels(groups, a.group)
       IN ret' = [op |-> "group_channels", args |-> a, exc |-> r.exc, value |-> r.value]
    /\ Done(t)
    /\ UNCHANGED <<pipelineVars, registryVars, groups, subscriptions, channel_counter, now_ms, memoryVars, lastCall, issued>>

InvokeFlush(t) ==
    /\ calls[t] = Idle
    /\ calls' = [calls EXCEPT ![t] = Pending("flush", <<>>)]
    /\ UNCHANGED <<pipelineVars, registryVars, groups, subscriptions, lock, channel_counter, now_ms, memoryVars, ret, lastCall, issued>>

FlushBody(t) ==
    /\ InBody(t, "flush")
    /\ groups' = EmptyDict
    /\ subscriptions' = EmptyDict
    /\ ret' = [op |-> "flush", args |-> <<>>, exc |-> NoExc]
    /\ lastCall' = [p \in Groups \X Channels |->
                      IF lastCall[p] = "none" THEN "none" ELSE "discard"]
    /\ Done(t)
    /\ UNCHANGED <<pipelineVars, registryVars, channel_counter, now_ms, memoryVars, issued>>

InvokeNewChannel(t, prefix) ==
    /\ calls[t] = Idle
    /\ channel_counter + Cardinality({u \in Tasks : calls[u].op = "new_channel"}) < MaxCounter
    /\ calls' = [calls EXCEPT ![t] = Pending("new_channel", [prefix |-> prefix])]
    /\ UNCHANGED <<pipelineVars, registryVars, groups, subscriptions, lock, channel_counter, now_ms, memoryVars, ret, lastCall, issued>>

NewChannelBody(t) ==
    /\ InBody(t, "new_channel")
    /\ channel_counter' = next_counter(channel_counter)
    /\ LET name == channel_name(calls[t].args.prefix, now_ms, channel_counter')
       IN /\ ret' = [op |-> "new_channel", args |-> calls[t].args, exc |-> NoExc, value |-> name]
          /\ issued' = Append(issued, name)
    /\ Done(t)
    /\ UNCHANGED <<pipelineVars, registryVars, groups, subscriptions, now_ms, memoryVars, lastCall>>

Tick ==
    /\ now_ms < MaxTime
    /\ now_ms' = now_ms + 1
    /\ UNCHANGED <<pipelineVars, registryVars, groups, subscriptions, lock, channel_counter, memoryVars, calls, ret, lastCall, issued>>

\* ----------------------------------------------------------- memory pub/sub
\* An asyncio.Queue object is identified by what refers to it: the queue that
\* self.channels maps a channel to is named by the channel; a queue that only
\* waiting receive calls still hold is named by one of those tasks; a queue
\* nothing refers to is reclaimed.
Waiters(K, q) == {t \in Tasks : K[t].op = "receive" /\ K[t].queue = q}

Name(C, K, q) ==
    IF q \in {C[c] : c \in DOMAIN C} THEN q ELSE CHOOSE t \in Waiters(K, q) : TRUE

collect(C, Q, K) ==
    LET live == {q \in DOMAIN Q : q \in {C[c] : c \in DOMAIN C} \/ Waiters(K, q) # {}}
        old(n) == CHOOSE q \in live : Name(C, K, q) = n
    IN [queues |-> [n \in {Name(C, K, q) : q \in live} |-> Q[old(n)]],
        calls |-> [t \in Tasks |->
                     IF K[t].op = "receive"
                     THEN [K[t] EXCEPT !.queue = Name(C, K, @)] ELSE K[t]]]

\* publish: [queues |-> the queues after the call, exc |-> exception raised]
publish_all_queues(L, Q, channel, message) ==
    [queues |-> [q \in DOMAIN Q |-> Append(Q[q], message)], exc |-> NoExc]

publish(L, Q, channel, message) ==
    IF channel \in DOMAIN L
    THEN [queues |-> [q \in DOMAIN Q |->
                        IF q \in L[channel] THEN Append(Q[q], message) ELSE Q[q]],
          exc |-> NoExc]
    ELSE [queues |-> Q, exc |-> NoExc]

\* subscribe that makes a new queue for a channel that already has one
subscribe_new_queue(C, L, Q, channel) ==
    [channels |-> DictSet(C, channel, channel),
     queues |-> DictSet(Q, channel, <<>>),
     listeners |-> DictSet(L, channel, DictGet(L, channel, {}) \cup {channel})]

subscribe(C, L, Q, channel) ==
    LET fresh == channel \notin DOMAIN C
        q == IF fresh THEN channel ELSE C[channel]
    IN [channels |-> IF fresh THEN DictSet(C, channel, q) ELSE C,
        queues |-> IF fresh THEN DictSet(Q, q, <<>>) ELSE Q,
        listeners |-> DictSet(L, channel, DictGet(L, channel, {}) \cup {q})]

\* unsubscribe that forgets the channel's queue but leaves it listening
unsubscribe_keep_listener(C, L, Q, channel) ==
    IF channel \in DOMAIN C
    THEN [channels |-> DictDel(C, channel), queues |-> Q, listeners |-> L]
    ELSE [channels |-> C, queues |-> Q, listeners |-> L]

unsubscribe(C, L, Q, channel) ==
    IF channel \in DOMAIN C
    THEN [channels |-> DictDel(C, channel),
          queues |-> Q,
          listeners |-> DictSet(L, channel, DictGet(L, channel, {}) \ {C[channel]})]
    ELSE [channels |-> C, queues |-> Q, listeners |-> L]

\* asyncio.gather(*tasks, return_exceptions=True): what a child's outcome becomes
gather_collect_propagate(raises) ==
    [result |-> IF raises THEN "exception" ELSE None, propagate |-> raises]

gather_collect(raises) ==
    [result |-> IF raises THEN "exception" ELSE None, propagate |-> FALSE]

\* the warnings group_send logs: one when a publish failed, none otherwise
group_send_report(chans, results) ==
    LET failed_channels == {c \in chans : results[c] = "exception"}
    IN IF failed_channels # {}
       THEN {[failed |-> Cardinality(failed_channels), total |-> Cardinality(chans),
              failed_channels |-> failed_channels]}
       ELSE {}

\* asyncio.wait_for on expiry, and get_message on a channel without a queue
wait_for_timeout_returns_none == [exc |-> NoExc, value |-> None]

wait_for_timeout == [exc |-> "TimeoutError", value |-> None]

get_message_no_channel == [exc |-> NoExc, value |-> None]

\* The delivery history: what a completed publish, a subscribe, the end of
\* subscriptions and a completed receive add to it.  C is self.channels when
\* the call is made; q is the queue the receive took its message from.
NoDelivery == [on |-> FALSE, published |-> EmptyDict, received |-> EmptyDict]

delivery_publish(D, C, channel, message) ==
    IF D.on /\ channel \in DOMAIN C
    THEN [D EXCEPT !.published = DictSet(@, channel, Append(D.published[channel], message))]
    ELSE D

delivery_subscribe(D, C, channel) ==
    IF D.on /\ channel \notin DOMAIN C
    THEN [D EXCEPT !.published = DictSet(@, channel, <<>>),
                   !.received = DictSet(@, channel, <<>>)]
    ELSE D

delivery_end(D, C) ==
    IF D.on
    THEN [D EXCEPT !.published = [c \in DOMAIN C |-> D.published[c]],
                   !.received = [c \in DOMAIN C |-> D.received[c]]]
    ELSE D

delivery_receive(D, C, channel, q, message) ==
    IF D.on /\ channel \in DOMAIN C /\ C[channel] = q
    THEN [D EXCEPT !.received = DictSet(@, channel, Append(D.received[channel], message))]
    ELSE D

Snapshot == [channels |-> channels, listeners |-> listeners, queues |-> queues]

Room(channel) == \A q \in DictGet(listeners, channel, {}) : Len(queues[q]) < MaxQueueLen

Publish(channel, message) ==
    /\ Room(channel)
    /\ LET r == publish(listeners, queues, channel, message)
       IN /\ queues' = r.queues
          /\ delivery' = delivery_publish(delivery, channels, channel, message)
          /\ ret' = [op |-> "publish", args |-> [channel |-> channel, message |-> message],
                     exc |-> r.exc, before |-> Snapshot, via |-> NoTask]
    /\ UNCHANGED <<pipelineVars, registryVars, groups, subscriptions, lock, channel_counter, now_ms, channels,
                   listeners, calls, lastCall, issued>>

Subscribe(channel) ==
    /\ LET r == subscribe(channels, listeners, queues, channel)
       IN /\ channels' = r.channels
          /\ listeners' = r.listeners
          /\ queues' = r.queues
          /\ delivery' = delivery_subscribe(delivery, channels, channel)
    /\ ret' = [op |-> "subscribe", args |-> [channel |-> channel], exc |-> NoExc]
    /\ UNCHANGED <<pipelineVars, registryVars, groups, subscriptions, lock, channel_counter, now_ms, calls,
                   lastCall, issued>>

Unsubscribe(channel) ==
    /\ LET r == unsubscribe(channels, listeners, queues, channel)
       IN /\ channels' = r.channels
          /\ listeners' = r.listeners
          /\ queues' = collect(r.channels, r.queues, calls).queues
          /\ calls' = collect(r.channels, r.queues, calls).calls
          /\ delivery' = delivery_end(delivery, r.channels)
    /\ ret' = [op |-> "unsubscribe", args |-> [channel |-> channel], exc |-> NoExc]
    /\ UNCHANGED <<pipelineVars, registryVars, groups, subscriptions, lock, channel_counter, now_ms, lastCall, issued>>

\* group_send: the snapshot of the members and the early return ...
GroupSendStart(t, group, message) ==
    /\ calls[t] = Idle
    /\ LET chans == get_group_channels(groups, group).value
           a == [group |-> group, message |-> message]
       IN IF chans = {}
          THEN /\ ret' = [op |-> "group_send", args |-> a, exc |-> NoExc, channels |-> chans,
                          results |-> EmptyDict, raised |-> {}, published |-> {},
                          report |-> {}]
               /\ calls' = calls
          ELSE /\ calls' = [calls EXCEPT ![t] =
                              [op |-> "group_send", at |-> "gather", args |-> a,
                               channels |-> chans, results |-> EmptyDict,
                               raised |-> {}, published |-> {}]]
               /\ ret' = ret
    /\ UNCHANGED <<pipelineVars, registryVars, groups, subscriptions, lock, channel_counter, now_ms, memoryVars,
                   lastCall, issued>>

\* ... one child publish of the gather (raises: the publish fails) ...
GroupSendPublish(t, channel, raises) ==
    /\ calls[t].op = "group_send"
    /\ channel \in calls[t].channels \ DOMAIN calls[t].results
    /\ raises \/ Room(channel)
    /\ LET k == calls[t]
           r == IF raises THEN [queues |-> queues, exc |-> "Exception"]
                ELSE publish(listeners, queues, channel, k.args.message)
           g == gather_collect(raises)
           k1 == [k EXCEPT !.results = DictSet(@, channel, g.result),
                           !.raised = IF raises THEN @ \cup {channel} ELSE @,
                           !.published = IF raises THEN @ ELSE @ \cup {channel}]
       IN /\ queues' = r.queues
          /\ delivery' = IF raises THEN delivery
                         ELSE delivery_publish(delivery, channels, channel, k.args.message)
          /\ IF g.propagate
             THEN /\ calls' = [calls EXCEPT ![t] = Idle]
                  /\ ret' = [op |-> "group_send", args |-> k.args, exc |-> r.exc,
                             channels |-> k.channels, results |-> k1.results,
                             raised |-> k1.raised, published |-> k1.published,
                             report |-> {}]
             ELSE /\ calls' = [calls EXCEPT ![t] = k1]
                  /\ ret' = [op |-> "publish",
                             args |-> [channel |-> channel, message |-> k.args.message],
                             exc |-> r.exc, before |-> Snapshot, via |-> t]
    /\ UNCHANGED <<pipelineVars, registryVars, groups, subscriptions, lock, channel_counter, now_ms, channels,
                   listeners, lastCall, issued>>

\* ... and, all children done, the count of the failures and the return.
GroupSendFinish(t) ==
    /\ calls[t].op = "group_send"
    /\ DOMAIN calls[t].results = calls[t].channels
    /\ LET k == calls[t]
       IN ret' = [op |-> "group_send", args |-> k.args, exc |-> NoExc,
                  channels |-> k.channels, results |-> k.results, raised |-> k.raised,
                  published |-> k.published,
                  report |-> group_send_report(k.channels, k.results)]
    /\ calls' = [calls EXCEPT ![t] = Idle]
    /\ UNCHANGED <<pipelineVars, registryVars, groups, subscriptions, lock, channel_counter, now_ms, memoryVars,
                   lastCall, issued>>

\* receive / get_message: timeout is None (wait for ever) or "finite"
ReceiveCall(t, channel, timeout) ==
    /\ calls[t] = Idle
    /\ LET a == [channel |-> channel, timeout |-> timeout]
       IN IF channel \notin DOMAIN channels
          THEN /\ ret' = [op |-> "receive", args |-> a, path |-> "no_channel",
                          exc |-> get_message_no_channel.exc,
                          value |-> get_message_no_channel.value]
               /\ calls' = calls
          ELSE /\ calls' = [calls EXCEPT ![t] =
                              [op |-> "receive", at |-> "get", args |-> a,
                               queue |-> channels[channel]]]
               /\ ret' = ret
    /\ UNCHANGED <<pipelineVars, registryVars, groups, subscriptions, lock, channel_counter, now_ms, memoryVars,
                   lastCall, issued>>

ReceiveGet(t) ==
    /\ calls[t].op = "receive"
    /\ queues[calls[t].queue] # <<>>
    /\ LET q == calls[t].queue
           k == [calls EXCEPT ![t] = Idle]
       IN /\ ret' = [op |-> "receive", args |-> calls[t].args, path |-> "message",
                     exc |-> NoExc, value |-> Head(queues[q])]
          /\ calls' = collect(channels, [queues EXCEPT ![q] = Tail(@)], k).calls
          /\ queues' = collect(channels, [queues EXCEPT ![q] = Tail(@)], k).queues
          /\ delivery' = delivery_receive(delivery, channels, calls[t].args.channel, q,
                                          Head(queues[q]))
    /\ UNCHANGED <<pipelineVars, registryVars, groups, subscriptions, lock, channel_counter, now_ms, channels,
                   listeners, lastCall, issued>>

ReceiveTimeout(t) ==
    /\ calls[t].op = "receive"
    /\ calls[t].args.timeout # None
    /\ LET k == [calls EXCEPT ![t] = Idle]
       IN /\ ret' = [op |-> "receive", args |-> calls[t].args, path |-> "timeout",
                     exc |-> wait_for_timeout.exc, value |-> wait_for_timeout.value]
          /\ calls' = collect(channels, queues, k).calls
          /\ queues' = collect(channels, queues, k).queues
          /\ delivery' = delivery
    /\ UNCHANGED <<pipelineVars, registryVars, groups, subscriptions, lock, channel_counter, now_ms, channels,
                   listeners, lastCall, issued>>

\* MemoryBackend.cleanup: clears channels and listeners, then awaits flush().
InvokeCleanup(t) ==
    /\ calls[t] = Idle
    /\ channels' = EmptyDict
    /\ listeners' = EmptyDict
    /\ delivery' = delivery_end(delivery, EmptyDict)
    /\ LET r == collect(EmptyDict, queues, calls)
       IN /\ queues' = r.queues
          /\ calls' = [r.calls EXCEPT ![t] = Pending("flush", <<>>)]
    /\ UNCHANGED <<pipelineVars, registryVars, groups, subscriptions, lock, channel_counter, now_ms, ret,
                   lastCall, issued>>

\* ------------------------------------------------------------------ registry
\* R is [connections, connection_data, user_connections]; a result is
\* [registry |-> R after the call, exc |-> exception raised].  user_id is a user
\* or None.
Registry ==
    [connections |-> registry_connections,
     connection_data |-> registry_connection_data,
     user_connections |-> registry_user_connections]

registry_add_connection(R, connection_id, user_id, metadata, grps, heartbeat_timeout) ==
    [registry |->
        [connections |-> R.connections \cup {connection_id},
         connection_data |->
            DictSet(R.connection_data, connection_id,
                    [user_id |-> user_id, metadata |-> metadata, groups |-> grps,
                     heartbeat_timeout |-> heartbeat_timeout]),
         user_connections |->
            IF user_id # None
            THEN DictSet(R.user_connections, user_id,
                         DictGet(R.user_connections, user_id, {}) \cup {connection_id})
            ELSE R.user_connections],
     exc |-> NoExc]

registry_remove_connection_del_user(R, connection_id, user_id) ==
    [registry |->
        [connections |-> R.connections \ {connection_id},
         connection_data |-> DictDel(R.connection_data, connection_id),
         user_connections |->
            IF user_id # None /\ user_id \in DOMAIN R.user_connections
            THEN DictDel(R.user_connections, user_id)
            ELSE R.user_connections],
     exc |-> NoExc]

registry_remove_connection(R, connection_id, user_id) ==
    [registry |->
        [connections |-> R.connections \ {connection_id},
         connection_data |-> DictDel(R.connection_data, connection_id),
         user_connections |->
            IF user_id # None /\ user_id \in DOMAIN R.user_connections
            THEN LET U1 == [R.user_connections EXCEPT ![user_id] = @ \ {connection_id}]
                 IN IF U1[user_id] = {} THEN DictDel(U1, user_id) ELSE U1
            ELSE R.user_connections],
     exc |-> NoExc]

registry_count_connections(R) == Cardinality(R.connections)

registry_get_user_connections(R, user_id) == DictGet(R.user_connections, user_id, {})

\* connection_id appears somewhere in the registry
InRegistry(R, connection_id) ==
    \/ connection_id \in R.connections
    \/ connection_id \in DOMAIN R.connection_data
    \/ \E u \in DOMAIN R.user_connections : connection_id \in R.user_connections[u]

SetRegistry(R) ==
    /\ registry_connections' = R.connections
    /\ registry_connection_data' = R.connection_data
    /\ registry_user_connections' = R.user_connections

InvokeRegistryAdd(t, connection_id, user_id, grps) ==
    /\ calls[t] = Idle
    /\ calls' = [calls EXCEPT ![t] =
                    Pending("registry_add_connection",
                            [connection_id |-> connection_id, user_id |-> user_id,
                             metadata |-> EmptyDict, groups |-> grps,
                             heartbeat_timeout |-> 60])]
    /\ UNCHANGED <<pipelineVars, registryVars, groups, subscriptions, lock, channel_counter, now_ms,
                   memoryVars, ret, lastCall, issued>>

RegistryAddBody(t) ==
    /\ InBody(t, "registry_add_connection")
    /\ LET a == calls[t].args
           r == registry_add_connection(Registry, a.connection_id, a.user_id,
                                        a.metadata, a.groups, a.heartbeat_timeout)
       IN /\ SetRegistry(r.registry)
          /\ ret' = [op |-> "registry_add_connection", args |-> a, exc |-> r.exc]
          /\ addedUnder' = IF a.user_id # None
                           THEN addedUnder \cup {<<a.connection_id, a.user_id>>}
                           ELSE addedUnder
    /\ Done(t)
    /\ UNCHANGED <<pipelineVars, groups, subscriptions, channel_counter, now_ms, memoryVars,
                   lastCall, issued>>

InvokeRegistryRemove(t, connection_id, user_id) ==
    /\ calls[t] = Idle
    /\ calls' = [calls EXCEPT ![t] =
                    Pending("registry_remove_connection",
                            [connection_id |-> connection_id, user_id |-> user_id])]
    /\ UNCHANGED <<pipelineVars, registryVars, groups, subscriptions, lock, channel_counter, now_ms,
                   memoryVars, ret, lastCall, issued>>

RegistryRemoveBody(t) ==
    /\ InBody(t, "registry_remove_connection")
    /\ LET a == calls[t].args
           r == registry_remove_connection(Registry, a.connection_id, a.user_id)
       IN /\ SetRegistry(r.registry)
          /\ ret' = [op |-> "registry_remove_connection", args |-> a, exc |-> r.exc,
                     known |-> InRegistry(Registry, a.connection_id)]
          /\ addedUnder' = {p \in addedUnder : p[1] # a.connection_id}
    /\ Done(t)
    /\ UNCHANGED <<pipelineVars, groups, subscriptions, channel_counter, now_ms, memoryVars,
                   lastCall, issued>>

InvokeRegistryCount(t) ==
    /\ calls[t] = Idle
    /\ calls' = [calls EXCEPT ![t] = Pending("registry_count_connections", <<>>)]
    /\ UNCHANGED <<pipelineVars, registryVars, groups, subscriptions, lock, channel_counter, now_ms,
                   memoryVars, ret, lastCall, issued>>

RegistryCountBody(t) ==
    /\ InBody(t, "registry_count_connections")
    /\ ret' = [op |-> "registry_count_connections", args |-> <<>>, exc |-> NoExc,
               value |-> registry_count_connections(Registry)]
    /\ Done(t)
    /\ UNCHANGED <<pipelineVars, registryVars, groups, subscriptions, channel_counter, now_ms,
                   memoryVars, lastCall, issued>>

InvokeRegistryGetUserConnections(t, user_id) ==
    /\ calls[t] = Idle
    /\ calls' = [calls EXCEPT ![t] =
                    Pending("registry_get_user_connections", [user_id |-> user_id])]
    /\ UNCHANGED <<pipelineVars, registryVars, groups, subscriptions, lock, channel_counter, now_ms,
                   memoryVars, ret, lastCall, issued>>

RegistryGetUserConnectionsBody(t) ==
    /\ InBody(t, "registry_get_user_connections")
    /\ ret' = [op |-> "registry_get_user_connections", args |-> calls[t].args,
               exc |-> NoExc,
               value |-> registry_get_user_connections(Registry, calls[t].args.user_id)]
    /\ Done(t)
    /\ UNCHANGED <<pipelineVars, registryVars, groups, subscriptions, channel_counter, now_ms,
                   memoryVars, lastCall, issued>>

\* ------------------------------------------------------------ float arithmetic
\* Python floats are IEEE-754 binary64: 53 significand bits, every operation
\* rounding its exact result to nearest, ties to even.  A positive float is
\* [m1, m2, m3, exp]: its significand as three 18-bit limbs, most significant
\* first (m1's top bit is 1, m3's lowest bit is 0), worth
\* (m1 * 2^36 + m2 * 2^18 + m3) * 2^(exp - 53), so that 2^exp <= value < 2^(exp+1).
LimbBits == 18
Limb == 262144

RECURSIVE Pow2(_)
Pow2(n) == IF n = 0 THEN 1 ELSE 2 * Pow2(n - 1)

\* floor(log2(a / b)) for positive integers a and b
RECURSIVE Log2Floor(_, _)
Log2Floor(a, b) ==
    IF a < b THEN Log2Floor(2 * a, b) - 1
    ELSE IF a >= 2 * b THEN Log2Floor(a, 2 * b) + 1
    ELSE 0

\* round 54 significand bits (and whether anything nonzero lies below them)
\* to 53
float_round(m1, m2, m3, exp, sticky) ==
    LET guard == m3 % 2
        odd == (m3 \div 2) % 2 = 1
        up == guard = 1 /\ (sticky \/ odd)
        n3 == (m3 - guard) + (IF up THEN 2 ELSE 0)
        n2 == m2 + (n3 \div Limb)
        n1 == m1 + (n2 \div Limb)
    IN IF n1 = Limb
       THEN [m1 |-> Limb \div 2, m2 |-> 0, m3 |-> 0, exp |-> exp + 1]
       ELSE [m1 |-> n1, m2 |-> n2 % Limb, m3 |-> n3 % Limb, exp |-> exp]

\* a / b for positive ints (int.__truediv__)
float_div(a, b) ==
    LET exp == Log2Floor(a, b)
        num == IF exp < 0 THEN a * Pow2(0 - exp) ELSE a
        den == IF exp < 0 THEN b ELSE b * Pow2(exp)
        d1 == num * (Limb \div 2)
        d2 == (d1 % den) * Limb
        d3 == (d2 % den) * Limb
    IN float_round(d1 \div den, d2 \div den, d3 \div den, exp, (d3 % den) # 0)

\* n * x for a whole-valued float n >= 1 and a positive float x (float.__mul__)
float_mul(n, x) ==
    LET p3 == x.m3 * n
        p2 == x.m2 * n + (p3 \div Limb)
        p1 == x.m1 * n + (p2 \div Limb)
        shift == Log2Floor(p1, Limb \div 2)
        cut == Pow2(shift)
        low2 == (p1 % cut) * Limb + (p2 % Limb)
        low3 == (p2 % cut) * Limb + (p3 % Limb)
    IN float_round(p1 \div cut, low2 \div cut, low3 \div cut, x.exp + shift,
                   (p3 % cut) # 0)

\* int(x) for a positive float x below 2^18: truncation toward zero
float_to_int(x) ==
    IF x.exp < 0 THEN 0 ELSE x.m1 \div Pow2(LimbBits - 1 - x.exp)

\* int(elapsed * (self.rate / self.window)), elapsed a whole number of seconds
refill(elapsed, rate, window) ==
    IF elapsed = 0 THEN 0 ELSE float_to_int(float_mul(elapsed, float_div(rate, window)))

\* ---------------------------------------------------------------- rate limiter
\* RateLimitMiddleware.__init__'s fallbacks for the settings it reads
RATE_LIMIT_MESSAGES == 100
RATE_LIMIT_WINDOW == 60

Min(a, b) == IF a < b THEN a ELSE b

\* TokenBucketRateLimiter.allow:
\* allow with one last_check for the whole limiter: a check moves the
\* last_check of every bucket to now
allow_shared_clock(L, B, key, now) ==
    LET touched == [x \in DOMAIN B |-> [B[x] EXCEPT !.last_check = now]]
    IN IF key \notin DOMAIN B
       THEN [buckets |-> DictSet(touched, key,
                                 [last_check |-> now, tokens |-> L.burst - 1]),
             value |-> TRUE]
       ELSE LET elapsed == now - B[key].last_check
                tokens == Min(L.burst,
                              B[key].tokens + refill(elapsed, L.rate, L.window))
            IN IF tokens > 0
               THEN [buckets |-> DictSet(touched, key,
                                         [last_check |-> now, tokens |-> tokens - 1]),
                     value |-> TRUE]
               ELSE [buckets |-> DictSet(touched, key,
                                         [last_check |-> now, tokens |-> 0]),
                     value |-> FALSE]

\* allow without the min(self.burst, ...) cap on the refilled bucket
allow_uncapped(L, B, key, now) ==
    IF key \notin DOMAIN B
    THEN [buckets |-> DictSet(B, key, [last_check |-> now, tokens |-> L.burst - 1]),
          value |-> TRUE]
    ELSE LET elapsed == now - B[key].last_check
             tokens == B[key].tokens + refill(elapsed, L.rate, L.window)
         IN IF tokens > 0
            THEN [buckets |-> DictSet(B, key, [last_check |-> now, tokens |-> tokens - 1]),
                  value |-> TRUE]
            ELSE [buckets |-> DictSet(B, key, [last_check |-> now, tokens |-> 0]),
                  value |-> FALSE]

\* [buckets |-> self.buckets after the call, value |-> the bool returned]
allow(L, B, key, now) ==
    IF key \notin DOMAIN B
    THEN [buckets |-> DictSet(B, key, [last_check |-> now, tokens |-> L.burst - 1]),
          value |-> TRUE]
    ELSE LET elapsed == now - B[key].last_check
             tokens == Min(L.burst, B[key].tokens + refill(elapsed, L.rate, L.window))
         IN IF tokens > 0
            THEN [buckets |-> DictSet(B, key, [last_check |-> now, tokens |-> tokens - 1]),
                  value |-> TRUE]
            ELSE [buckets |-> DictSet(B, key, [last_check |-> now, tokens |-> 0]),
                  value |-> FALSE]

Allow(key) ==
    /\ log.on => Len(log.entries) < MaxChecks
    /\ LET r == allow(limiter, buckets, key, time_time)
       IN /\ buckets' = r.buckets
          /\ ret' = [op |-> "allow", args |-> [key |-> key], value |-> r.value]
          /\ log' = IF log.on
                    THEN [log EXCEPT !.entries =
                             Append(@, [key |-> key, now |-> time_time, value |-> r.value])]
                    ELSE log
          /\ last_allowed' = IF r.value THEN DictSet(last_allowed, key, time_time)
                             ELSE last_allowed
    /\ UNCHANGED <<backendVars, consumerVars, limiter, time_time>>

\* time.time() moves on by d seconds
Advance(d) ==
    /\ time_time + d <= MaxClock
    /\ time_time' = time_time + d
    /\ UNCHANGED <<backendVars, consumerVars, limiter, buckets, log, last_allowed, ret>>

\* time.time() moves on by one token's worth of the window, window / rate
AdvanceToken ==
    /\ limiter.window % limiter.rate = 0
    /\ time_time + limiter.window \div limiter.rate
          <= MaxAdvances * (limiter.window \div limiter.rate)
    /\ time_time' = time_time + limiter.window \div limiter.rate
    /\ UNCHANGED <<backendVars, consumerVars, limiter, buckets, log, last_allowed, ret>>

\* ------------------------------------------------------------------ middleware
\* Settings(): the fields config.py declares, with their defaults
Settings ==
    [BACKEND_TYPE |-> "memory", REDIS_URL |-> "redis://localhost:6379",
     REDIS_CHANNEL_PREFIX |-> "ws:", WS_HEARTBEAT_INTERVAL |-> 30,
     WS_HEARTBEAT_TIMEOUT |-> 60, WS_MAX_MESSAGE_SIZE |-> 1024 * 1024,
     WS_RECONNECT_MAX_ATTEMPTS |-> 5, WS_RECONNECT_DELAY |-> 5,
     MAX_CONNECTIONS_PER_CLIENT |-> 5, MAX_TOTAL_CONNECTIONS |-> 10000,
     LOG_LEVEL |-> "INFO"]

getattr(obj, name, default) == IF name \in DOMAIN obj THEN obj[name] ELSE default

\* RateLimitMiddleware.__init__
rate_limit_init ==
    LET messages_per_window == getattr(Settings, "RATE_LIMIT_MESSAGES", RATE_LIMIT_MESSAGES)
    IN [enabled |-> getattr(Settings, "RATE_LIMIT_ENABLED", FALSE),
        limiter |-> [rate |-> messages_per_window,
                     window |-> getattr(Settings, "RATE_LIMIT_WINDOW", RATE_LIMIT_WINDOW),
                     burst |-> getattr(Settings, "RATE_LIMIT_BURST", messages_per_window)]]

\* ValidationMiddleware(max_message_size=settings.WS_MAX_MESSAGE_SIZE)
max_message_size == Settings.WS_MAX_MESSAGE_SIZE

\* A Message is [type, size, ttl_seconds, created_at, sender_id]: size is
\* len(json.dumps(message.to_dict())); ttl_seconds is [kind |-> "none"],
\* [kind |-> "float", value |-> seconds] or [kind |-> "str"], a value the
\* client sent that is no number.  A stage's result is
\* [exc |-> exception raised, value |-> <<message>> or <<>> for None].
NoTTL == [kind |-> "none"]
TTL(seconds) == [kind |-> "float", value |-> seconds]
BadTTL == [kind |-> "str"]

Returned(message) == [exc |-> NoExc, value |-> <<message>>]
Dropped == [exc |-> NoExc, value |-> <<>>]
Raised(exc) == [exc |-> exc, value |-> <<>>]

\* bool(x) for a user_id
Truthy(x) == x # None /\ x # ""

\* Message.is_expired with the comparison made at the TTL, not beyond it
is_expired_at_ttl(message, now) ==
    IF message.ttl_seconds.kind = "none" THEN [exc |-> NoExc, value |-> FALSE]
    ELSE IF message.ttl_seconds.kind = "float"
         THEN [exc |-> NoExc, value |-> (now - message.created_at) >= message.ttl_seconds.value]
         ELSE [exc |-> "TypeError", value |-> FALSE]

\* Message.is_expired
is_expired(message, now) ==
    IF message.ttl_seconds.kind = "none" THEN [exc |-> NoExc, value |-> FALSE]
    ELSE IF message.ttl_seconds.kind = "float"
         THEN [exc |-> NoExc, value |-> (now - message.created_at) > message.ttl_seconds.value]
         ELSE [exc |-> "TypeError", value |-> FALSE]

\* message.is_expired() called at time.time() = time_time
IsExpired(message) ==
    /\ ret' = [op |-> "is_expired", args |-> [message |-> message], now |-> time_time,
               exc |-> is_expired(message, time_time).exc,
               value |-> is_expired(message, time_time).value]
    /\ UNCHANGED <<backendVars, pipelineVars>>

\* AuthenticationMiddleware.process
auth_process_connect_checked(message, user_id) ==
    IF message.type \in {"ping", "pong"} THEN Returned(message)
    ELSE IF ~Truthy(user_id) THEN Raised("AuthenticationError")
    ELSE Returned(message)

auth_process(message, user_id) ==
    IF message.type \in {"ping", "pong", "connect"} THEN Returned(message)
    ELSE IF ~Truthy(user_id) THEN Raised("AuthenticationError")
    ELSE Returned(message)

\* ValidationMiddleware.process; dumps_raises: json.dumps raises on data it
\* cannot serialize
validation_process_at_limit(message, now, dumps_raises) ==
    IF dumps_raises THEN Raised("ValidationError")
    ELSE IF message.size >= max_message_size THEN Raised("ValidationError")
    ELSE LET expired == is_expired(message, now)
         IN IF expired.exc # NoExc THEN Raised(expired.exc)
            ELSE IF expired.value THEN Dropped
            ELSE Returned(message)

\* ValidationMiddleware.process with message.is_expired() consulted ahead of
\* the size comparison
validation_process_expiry_first(message, now, dumps_raises) ==
    IF dumps_raises THEN Raised("ValidationError")
    ELSE LET expired == is_expired(message, now)
         IN IF expired.exc # NoExc THEN Raised(expired.exc)
            ELSE IF expired.value THEN Dropped
            ELSE IF message.size > max_message_size THEN Raised("ValidationError")
            ELSE Returned(message)

validation_process(message, now, dumps_raises) ==
    IF dumps_raises THEN Raised("ValidationError")
    ELSE IF message.size > max_message_size THEN Raised("ValidationError")
    ELSE LET expired == is_expired(message, now)
         IN IF expired.exc # NoExc THEN Raised(expired.exc)
            ELSE IF expired.value THEN Dropped
            ELSE Returned(message)

\* RateLimitMiddleware.process: the stage's result and self.limiter.buckets
\* after it; checked tells whether limiter.allow was called
rate_limit_process(message, key, enabled, L, B, now) ==
    IF ~enabled THEN [result |-> Returned(message), buckets |-> B, checked |-> FALSE]
    ELSE IF message.type \in {"ping", "pong"}
         THEN [result |-> Returned(message), buckets |-> B, checked |-> FALSE]
         ELSE LET r == allow(L, B, key, now)
              IN [result |-> IF r.value THEN Returned(message) ELSE Raised("RateLimitError"),
                  buckets |-> r.buckets, checked |-> TRUE]

\* LoggingMiddleware.process
logging_process(message) == Returned(message)

Stages == {"auth", "rate_limit", "validation", "logging"}

\* stage.process(message, connection, consumer) on connection k, with the
\* limiter's buckets B, at time now
stage_process(stage, message, k, B, now, dumps_raises) ==
    CASE stage = "auth" ->
           [result |-> auth_process(message, connection[k].user_id),
            buckets |-> B, checked |-> FALSE]
      [] stage = "rate_limit" ->
           rate_limit_process(message, k, rate_limit_enabled, limiter, B, now)
      [] stage = "validation" ->
           [result |-> validation_process(message, now, dumps_raises),
            buckets |-> B, checked |-> FALSE]
      [] stage = "logging" ->
           [result |-> logging_process(message), buckets |-> B, checked |-> FALSE]

Process(stage, k, message, dumps_raises) ==
    /\ LET r == stage_process(stage, message, k, buckets, time_time, dumps_raises)
       IN /\ buckets' = r.buckets
          /\ last_allowed' = IF r.checked /\ r.result.exc = NoExc
                             THEN DictSet(last_allowed, k, time_time) ELSE last_allowed
          /\ ret' = [op |-> "process", stage |-> stage,
                     args |-> [connection |-> k, message |-> message,
                               dumps_raises |-> dumps_raises],
                     user_id |-> connection[k].user_id, now |-> time_time,
                     before |-> buckets, exc |-> r.result.exc, value |-> r.result.value]
    /\ UNCHANGED <<backendVars, consumerVars, limiter, time_time, log>>

\* -------------------------------------------------------------------- consumer
\* Middleware.__call__ down the stack: [result |-> what the stack returns or
\* raises, buckets, ran |-> the stages whose process ran, allowed |-> whether
\* a token was consumed]
RECURSIVE run_stages(_, _, _, _, _, _)

\* what __call__ returns once the stage's process gave `first` and the rest
\* of the stack gave `rest`
run_stages_join(stage, first, rest) ==
    [result |-> rest.result, buckets |-> rest.buckets, ran |-> <<stage>> \o rest.ran,
     allowed |-> first.checked \/ rest.allowed]

\* __call__ after the head stage's process gave `first`
run_stages_next(stack, first, k, now, dumps_raises) ==
    IF first.result.value = <<>>
    THEN [result |-> first.result, buckets |-> first.buckets, ran |-> <<Head(stack)>>,
          allowed |-> FALSE]
    ELSE run_stages_join(Head(stack), first,
                         run_stages(Tail(stack), first.result.value[1], k,
                                    first.buckets, now, dumps_raises))

run_stages(stack, message, k, B, now, dumps_raises) ==
    IF stack = <<>>
    THEN [result |-> Returned(message), buckets |-> B, ran |-> <<>>, allowed |-> FALSE]
    ELSE run_stages_next(stack,
                         stage_process(Head(stack), message, k, B, now, dumps_raises),
                         k, now, dumps_raises)

\* Connection.update_heartbeat and Connection.update_activity
update_heartbeat(c, now) == [c EXCEPT !.last_heartbeat = now]
update_activity(c, now) == [c EXCEPT !.last_activity = now]

\* handle_message's except clauses, given the exception e raised inside its
\* try block: [exc |-> what handle_message raises, code |-> its error_code,
\* responses |-> what it sends on self.connection.websocket]
handle_message_except(consumer, e) ==
    IF e = NoExc THEN [exc |-> NoExc, code |-> None, responses |-> <<>>]
    ELSE IF e = "JSONDecodeError"
         THEN [exc |-> "ValidationError", code |-> "INVALID_JSON", responses |-> <<>>]
         ELSE IF consumer = "core"
                 /\ e \in {"AuthenticationError", "ValidationError", "MessageError"}
              THEN [exc |-> NoExc, code |-> None, responses |-> <<[error |-> e]>>]
              ELSE [exc |-> e, code |-> None, responses |-> <<>>]

\* handle_message(raw) of the consumer serving connection record c with
\* channel_name k.  raw is [kind |-> "malformed"] (no JSON), [kind |-> "array"]
\* (JSON, but no object) or [kind |-> "object", type, size, ttl_seconds,
\* sender_id, priority, length]; priority is "unhashable" for a JSON array or
\* object, which the lookup in MessagePriority._value2member_map_ cannot
\* hash, and None for any other value or none; length is
\* len(raw_message.encode()); hook is what the receive hook raises.
\* [conn |-> c after the call, buckets, message |-> the Message given to the
\* stack, ran, received |-> the Message given to the receive hook, raised |->
\* the exception raised inside the try block, at |-> where, exc, code,
\* responses]
handle_message_outcome(c, conn, bkts, message, ran, received, allowed, at, e) ==
    LET handled == handle_message_except(c.consumer, e)
    IN [conn |-> conn, buckets |-> bkts, message |-> message, ran |-> ran,
        hook_called |-> received # <<>>, received |-> received,
        allowed |-> allowed, at |-> at, raised |-> e, exc |-> handled.exc,
        code |-> handled.code, responses |-> handled.responses]

\* Message(type=..., sender_id=self.connection.channel_name, ...) from the
\* parsed payload; created_at is the time of construction
make_message_trusting_client(k, raw, now) ==
    [type |-> IF raw.type = None THEN "message" ELSE raw.type,
     size |-> raw.size, ttl_seconds |-> raw.ttl_seconds, created_at |-> now,
     sender_id |-> IF raw.sender_id = None THEN k ELSE raw.sender_id]

make_message(k, raw, now) ==
    [type |-> IF raw.type = None THEN "message" ELSE raw.type,
     size |-> raw.size, ttl_seconds |-> raw.ttl_seconds, created_at |-> now,
     sender_id |-> k]

\* the rest of the try block with a dropped message handed to receive as it
\* was given to the stack
handle_message_dispatch_drop_to_hook(c, counted, message, stages, hook) ==
    IF stages.result.exc # NoExc
    THEN handle_message_outcome(c, counted, stages.buckets, <<message>>, stages.ran,
                                <<>>, stages.allowed, "stage", stages.result.exc)
    ELSE handle_message_outcome(c, counted, stages.buckets, <<message>>, stages.ran,
                                <<message>>, stages.allowed,
                                IF hook = NoExc THEN "none" ELSE "hook", hook)

\* the rest of the try block once the stack, given `message`, has returned or
\* raised `stages`
handle_message_dispatch(c, counted, message, stages, hook) ==
    IF stages.result.exc # NoExc
    THEN handle_message_outcome(c, counted, stages.buckets, <<message>>, stages.ran,
                                <<>>, stages.allowed, "stage", stages.result.exc)
    ELSE IF stages.result.value = <<>>
    THEN handle_message_outcome(c, counted, stages.buckets, <<message>>, stages.ran,
                                <<>>, stages.allowed, "none", NoExc)
    ELSE handle_message_outcome(c, counted, stages.buckets, <<message>>, stages.ran,
                                stages.result.value, stages.allowed,
                                IF hook = NoExc THEN "none" ELSE "hook", hook)

\* handle_message without the pong case: a pong is counted and sent down the
\* stack like any other type
handle_message_pong_in_pipeline(c, k, raw, stack, B, now, hook, dumps_raises) ==
    IF raw.kind = "malformed"
    THEN handle_message_outcome(c, c, B, <<>>, <<>>, <<>>, FALSE, "json",
                                "JSONDecodeError")
    ELSE IF raw.kind = "array"
    THEN handle_message_outcome(c, c, B, <<>>, <<>>, <<>>, FALSE, "json",
                                "AttributeError")
    ELSE IF raw.priority = "unhashable"
    THEN handle_message_outcome(c, c, B, <<>>, <<>>, <<>>, FALSE, "priority",
                                "TypeError")
    ELSE handle_message_dispatch(
            c,
            update_activity([c EXCEPT !.bytes_received = @ + raw.length], now),
            make_message(k, raw, now),
            run_stages(stack, make_message(k, raw, now), k, B, now, dumps_raises),
            hook)

handle_message(c, k, raw, stack, B, now, hook, dumps_raises) ==
    IF raw.kind = "malformed"
    THEN handle_message_outcome(c, c, B, <<>>, <<>>, <<>>, FALSE, "json",
                                "JSONDecodeError")
    ELSE IF raw.kind = "array"
    THEN handle_message_outcome(c, c, B, <<>>, <<>>, <<>>, FALSE, "json",
                                "AttributeError")
    ELSE IF raw.type = "pong"
    THEN handle_message_outcome(c, update_heartbeat(c, now), B, <<>>, <<>>, <<>>,
                                FALSE, "none", NoExc)
    ELSE IF raw.priority = "unhashable"
    THEN handle_message_outcome(c, c, B, <<>>, <<>>, <<>>, FALSE, "priority",
                                "TypeError")
    ELSE handle_message_dispatch(
            c,
            update_activity([c EXCEPT !.bytes_received = @ + raw.length], now),
            make_message(k, raw, now),
            run_stages(stack, make_message(k, raw, now), k, B, now, dumps_raises),
            hook)

\* what a handle_message call that computed r leaves behind
HandleMessageEffect(k, raw, dumps_raises, r) ==
    /\ connection' = [connection EXCEPT ![k] = r.conn]
    /\ sent' = [sent EXCEPT ![k] = @ \o r.responses]
    /\ buckets' = r.buckets
    /\ last_allowed' = IF r.allowed THEN DictSet(last_allowed, k, time_time)
                       ELSE last_allowed
    /\ ret' = [op |-> "handle_message", args |-> [connection |-> k, raw |-> raw],
               message |-> r.message, ran |-> r.ran,
               hook_called |-> r.hook_called, received |-> r.received,
               at |-> r.at,
               raised |-> r.raised,
               cause |-> IF r.at = "stage" /\ r.ran[Len(r.ran)] = "validation"
                            /\ dumps_raises
                         THEN "TypeError" ELSE NoExc,
               exc |-> r.exc, code |-> r.code, responses |-> r.responses]

HandleMessage(k, raw, hook, dumps_raises) ==
    /\ Len(sent[k]) < MaxSent
    /\ raw.kind = "object" => connection[k].bytes_received + raw.length <= MaxBytes
    /\ HandleMessageEffect(k, raw, dumps_raises,
                           handle_message(connection[k], k, raw, middleware_stack,
                                          buckets, time_time, hook, dumps_raises))
    /\ UNCHANGED <<backendVars, limiter, time_time, log, rate_limit_enabled,
                   middleware_stack, consumers>>

\* ----------------------------------------------------------- group lifecycle
\* ConnectionManager.join_group / leave_group / disconnect on the connection
\* record conn with channel_name k.  `fails` says the backend call raises.
\* [groups |-> the backend's index, conn, exc]
manager_join_group(G, conn, k, group, fails) ==
    IF fails THEN [groups |-> G, conn |-> conn, exc |-> "BackendError"]
    ELSE [groups |-> group_add(G, group, k).groups,
          conn |-> [conn EXCEPT !.groups = @ \cup {group}], exc |-> NoExc]

manager_leave_group(G, conn, k, group, fails) ==
    IF fails THEN [groups |-> G, conn |-> conn, exc |-> "BackendError"]
    ELSE [groups |-> group_discard(G, group, k).groups,
          conn |-> [conn EXCEPT !.groups = @ \ {group}], exc |-> NoExc]

RECURSIVE manager_leave_all(_, _, _)
manager_leave_all(G, k, grps) ==
    IF grps = {} THEN G
    ELSE LET g == CHOOSE x \in grps : TRUE
         IN manager_leave_all(group_discard(G, g, k).groups, k, grps \ {g})

\* [groups, registry, conn, exc]
manager_disconnect(G, R, conn, k, code) ==
    IF conn.state = "DISCONNECTED"
    THEN [groups |-> G, registry |-> R, conn |-> conn, exc |-> NoExc]
    ELSE [groups |-> manager_leave_all(G, k, conn.groups),
          registry |-> registry_remove_connection(R, k, conn.user_id).registry,
          conn |-> [conn EXCEPT !.groups = {}, !.state = "DISCONNECTED",
                                !.closed = Append(@, code)],
          exc |-> NoExc]

\* BaseConsumer.join_group / leave_group of consumer object c.  The core class
\* keeps self.groups; the fastapi_channel class keeps no set of its own.
\* [groups, conn, consumer |-> c after the call, exc]
join_group_mirror_first(c, G, conn, k, group, fails) ==
    LET m == manager_join_group(G, conn, k, group, fails)
    IN [groups |-> m.groups, conn |-> m.conn,
        consumer |-> IF conn.consumer = "core"
                     THEN [c EXCEPT !.groups = @ \cup {group}] ELSE c,
        exc |-> m.exc]

join_group(c, G, conn, k, group, fails) ==
    LET m == manager_join_group(G, conn, k, group, fails)
    IN [groups |-> m.groups, conn |-> m.conn,
        consumer |-> IF m.exc = NoExc /\ conn.consumer = "core"
                     THEN [c EXCEPT !.groups = @ \cup {group}] ELSE c,
        exc |-> m.exc]

leave_group(c, G, conn, k, group, fails) ==
    LET m == manager_leave_group(G, conn, k, group, fails)
    IN [groups |-> m.groups, conn |-> m.conn,
        consumer |-> IF m.exc = NoExc /\ conn.consumer = "core"
                     THEN [c EXCEPT !.groups = @ \ {group}] ELSE c,
        exc |-> m.exc]

\* BaseConsumer.disconnect of the fastapi_channel class: on_disconnect(code),
\* then manager.disconnect.  hook is what the application's on_disconnect
\* does: "pass", or "leave_group" for one that leaves group g1.
\* [groups, registry, conn, consumer, exc]
disconnect(c, G, R, conn, k, code, hook) ==
    LET left == IF hook = "leave_group"
                THEN leave_group(c, G, conn, k, "g1", FALSE)
                ELSE [groups |-> G, conn |-> conn, consumer |-> c, exc |-> NoExc]
        m == manager_disconnect(left.groups, R, left.conn, k, code)
    IN [groups |-> m.groups, registry |-> m.registry, conn |-> m.conn,
        consumer |-> [left.consumer EXCEPT !.on_disconnect_calls = @ + 1],
        exc |-> m.exc]

lifecycleUnchanged ==
    UNCHANGED <<subscriptions, lock, channel_counter, now_ms, memoryVars, calls,
                lastCall, issued, limiterVars, rate_limit_enabled, middleware_stack,
                sent>>

JoinGroup(k, group, fails) ==
    /\ LET r == join_group(consumers[k], groups, connection[k], k, group, fails)
       IN /\ groups' = r.groups
          /\ connection' = [connection EXCEPT ![k] = r.conn]
          /\ consumers' = [consumers EXCEPT ![k] = r.consumer]
          /\ ret' = [op |-> "join_group", args |-> [connection |-> k, group |-> group],
                     exc |-> r.exc]
    /\ lifecycleUnchanged
    /\ UNCHANGED registryVars

LeaveGroup(k, group, fails) ==
    /\ LET r == leave_group(consumers[k], groups, connection[k], k, group, fails)
       IN /\ groups' = r.groups
          /\ connection' = [connection EXCEPT ![k] = r.conn]
          /\ consumers' = [consumers EXCEPT ![k] = r.consumer]
          /\ ret' = [op |-> "leave_group", args |-> [connection |-> k, group |-> group],
                     exc |-> r.exc]
    /\ lifecycleUnchanged
    /\ UNCHANGED registryVars

Disconnect(k, code, hook) ==
    /\ connection[k].consumer = "fastapi_channel"
    /\ consumers[k].on_disconnect_calls < MaxDisconnects
    /\ LET r == disconnect(consumers[k], groups, Registry, connection[k], k, code, hook)
       IN /\ groups' = r.groups
          /\ SetRegistry(r.registry)
          /\ addedUnder' = {p \in addedUnder : p[1] \in r.registry.connections}
          /\ connection' = [connection EXCEPT ![k] = r.conn]
          /\ consumers' = [consumers EXCEPT ![k] = r.consumer]
          /\ ret' = [op |-> "disconnect",
                     args |-> [connection |-> k, code |-> code, hook |-> hook],
                     again |-> connection[k].state = "DISCONNECTED", exc |-> r.exc]
    /\ lifecycleUnchanged

\* ------------------------------------------------------------ specifications
\* The stages as RateLimitMiddleware() builds them from Settings(), and
\* connections on which nothing has yet arrived.
InitStage ==
    /\ rate_limit_enabled = rate_limit_init.enabled
    /\ middleware_stack = <<>>
    /\ connection = [k \in Connections |->
                       [user_id |-> None, consumer |-> "core", bytes_received |-> 0,
                        last_heartbeat |-> 0, last_activity |-> 0,
                        groups |-> {}, state |-> "CONNECTED", closed |-> <<>>]]
    /\ sent = [k \in Connections |-> <<>>]
    /\ consumers = [k \in Connections |-> NewConsumer]

InitPipeline ==
    /\ limiter = rate_limit_init.limiter
    /\ buckets = EmptyDict
    /\ time_time = 0
    /\ log = [on |-> FALSE, entries |-> <<>>]
    /\ last_allowed = EmptyDict
    /\ InitStage

InitBackendState ==
    /\ groups = EmptyDict
    /\ subscriptions = EmptyDict
    /\ lock = NoTask
    /\ channel_counter = 0
    /\ now_ms = 0
    /\ channels = EmptyDict
    /\ listeners = EmptyDict
    /\ queues = EmptyDict
    /\ calls = [t \in Tasks |-> Idle]
    /\ ret = [op |-> "none"]
    /\ lastCall = [p \in Groups \X Channels |-> "none"]
    /\ issued = <<>>
    /\ registry_connections = {}
    /\ registry_connection_data = EmptyDict
    /\ registry_user_connections = EmptyDict
    /\ addedUnder = {}

InitBackend == InitBackendState /\ delivery = NoDelivery

Init == InitBackend /\ InitPipeline

NextGroups ==
    \/ \E t \in Tasks : Acquire(t)
    \/ \E t \in Tasks, g \in Groups, c \in GroupSpecChannels : InvokeGroupAdd(t, g, c)
    \/ \E t \in Tasks : GroupAddBody(t)
    \/ \E t \in Tasks, g \in Groups, c \in GroupSpecChannels : InvokeGroupDiscard(t, g, c)
    \/ \E t \in Tasks : GroupDiscardBody(t)
    \/ \E t \in Tasks, g \in Groups : InvokeGroupChannels(t, g)
    \/ \E t \in Tasks : GroupChannelsBody(t)
    \/ \E t \in Tasks : InvokeFlush(t)
    \/ \E t \in Tasks : FlushBody(t)

SpecGroups == Init /\ [][NextGroups]_vars

NextNewChannel ==
    \/ \E t \in Tasks : Acquire(t)
    \/ \E t \in Tasks, p \in Prefixes : InvokeNewChannel(t, p)
    \/ \E t \in Tasks : NewChannelBody(t)
    \/ Tick

SpecNewChannel == Init /\ [][NextNewChannel]_vars

MemoryChannels == {"c1", "c2"}
ReceiverTasks == {"t1"}

NextMemory ==
    \/ \E c \in MemoryChannels, m \in Messages : Publish(c, m)
    \/ \E c \in MemoryChannels : Subscribe(c)
    \/ \E c \in MemoryChannels : Unsubscribe(c)
    \/ \E t \in ReceiverTasks, c \in MemoryChannels, timeout \in {None, "finite"} :
          ReceiveCall(t, c, timeout)
    \/ \E t \in ReceiverTasks : ReceiveGet(t)
    \/ \E t \in ReceiverTasks : ReceiveTimeout(t)

SpecMemory == Init /\ [][NextMemory]_vars

\* The in-memory backend with the delivery history kept: publish, subscribe,
\* unsubscribe and receive on two channels, at most MaxDelivery publish calls
\* followed per subscription; the second channel carries one kind of message.
InitOrder ==
    /\ InitBackendState
    /\ delivery = [NoDelivery EXCEPT !.on = TRUE]
    /\ InitPipeline

NextOrder ==
    \/ \E c \in MemoryChannels, m \in Messages :
          /\ Len(DictGet(delivery.published, c, <<>>)) < MaxDelivery
          /\ c = "c2" => m = "m1"
          /\ Publish(c, m)
    \/ \E c \in MemoryChannels : Subscribe(c)
    \/ \E c \in MemoryChannels : Unsubscribe(c)
    \/ \E t \in ReceiverTasks, c \in MemoryChannels, timeout \in {None, "finite"} :
          ReceiveCall(t, c, timeout)
    \/ \E t \in ReceiverTasks : ReceiveGet(t)
    \/ \E t \in ReceiverTasks : ReceiveTimeout(t)

SpecOrder == InitOrder /\ [][NextOrder]_vars

\* The group indexes the group_send specification starts from: each is left by
\* a sequence of group_add calls.
GroupSendInitGroups ==
    {EmptyDict,
     [g \in {"g1"} |-> Channels],
     [g \in Groups |-> IF g = "g1" THEN {"c1", "c2"} ELSE {"c2", "c3"}]}

InitGroupSend ==
    /\ InitPipeline
    /\ groups \in GroupSendInitGroups
    /\ subscriptions = EmptyDict
    /\ lock = NoTask
    /\ channel_counter = 0
    /\ now_ms = 0
    /\ channels = EmptyDict
    /\ listeners = EmptyDict
    /\ queues = EmptyDict
    /\ delivery = NoDelivery
    /\ calls = [t \in Tasks |-> Idle]
    /\ ret = [op |-> "none"]
    /\ lastCall = [p \in Groups \X Channels |->
                     IF p[2] \in DictGet(groups, p[1], {}) THEN "add" ELSE "none"]
    /\ issued = <<>>
    /\ registry_connections = {}
    /\ registry_connection_data = EmptyDict
    /\ registry_user_connections = EmptyDict
    /\ addedUnder = {}

SenderTasks == {"t1"}
GroupSendMessages == {"m1"}

NextGroupSend ==
    \/ \E c \in Channels : Subscribe(c)
    \/ \E c \in Channels : Unsubscribe(c)
    \/ \E t \in SenderTasks, g \in Groups, m \in GroupSendMessages : GroupSendStart(t, g, m)
    \/ \E t \in SenderTasks, c \in Channels, raises \in BOOLEAN : GroupSendPublish(t, c, raises)
    \/ \E t \in SenderTasks : GroupSendFinish(t)

SpecGroupSend == InitGroupSend /\ [][NextGroupSend]_vars

\* group_send by one task while another adds channels to a group and discards
\* them, and channels are subscribed and unsubscribed.  A publish fails only on
\* a channel that has a queue to put on: with none, its loop body never runs.
FanoutTasks == {"t2"}
FanoutChannels == {"c1", "c2"}

NextFanout ==
    \/ \E c \in FanoutChannels : Subscribe(c)
    \/ \E c \in FanoutChannels : Unsubscribe(c)
    \/ \E t \in SenderTasks, g \in Groups, m \in GroupSendMessages : GroupSendStart(t, g, m)
    \/ \E t \in SenderTasks, c \in Channels, raises \in BOOLEAN :
          /\ raises => DictGet(listeners, c, {}) # {}
          /\ GroupSendPublish(t, c, raises)
    \/ \E t \in SenderTasks : GroupSendFinish(t)
    \/ \E t \in FanoutTasks : Acquire(t)
    \/ \E t \in FanoutTasks, c \in FanoutChannels : InvokeGroupAdd(t, "g1", c)
    \/ \E t \in FanoutTasks : GroupAddBody(t)
    \/ \E t \in FanoutTasks, c \in FanoutChannels : InvokeGroupDiscard(t, "g1", c)
    \/ \E t \in FanoutTasks : GroupDiscardBody(t)

SpecFanout == InitGroupSend /\ [][NextFanout]_vars

RegistryGroupArgs == {{"g1"}}

NextRegistry ==
    \/ \E t \in Tasks : Acquire(t)
    \/ \E t \in Tasks, k \in Connections, u \in Users \cup {None}, gs \in RegistryGroupArgs :
          InvokeRegistryAdd(t, k, u, gs)
    \/ \E t \in Tasks : RegistryAddBody(t)
    \/ \E t \in Tasks, k \in Connections, u \in Users \cup {None} :
          InvokeRegistryRemove(t, k, u)
    \/ \E t \in Tasks : RegistryRemoveBody(t)
    \/ \E t \in Tasks : InvokeRegistryCount(t)
    \/ \E t \in Tasks : RegistryCountBody(t)
    \/ \E t \in Tasks, u \in Users : InvokeRegistryGetUserConnections(t, u)
    \/ \E t \in Tasks : RegistryGetUserConnectionsBody(t)

SpecRegistry == Init /\ [][NextRegistry]_vars

NextFlush ==
    \/ \E t \in Tasks : Acquire(t)
    \/ \E t \in Tasks, g \in {"g1"}, c \in GroupSpecChannels : InvokeGroupAdd(t, g, c)
    \/ \E t \in Tasks : GroupAddBody(t)
    \/ \E c \in MemoryChannels : Subscribe(c)
    \/ \E t \in Tasks, k \in Connections, u \in {"u1", None}, gs \in RegistryGroupArgs :
          InvokeRegistryAdd(t, k, u, gs)
    \/ \E t \in Tasks : RegistryAddBody(t)
    \/ \E t \in Tasks : InvokeFlush(t)
    \/ \E t \in Tasks : FlushBody(t)
    \/ \E t \in Tasks : InvokeCleanup(t)

SpecFlush == Init /\ [][NextFlush]_vars

\* The limiters explored: the rate, window and burst of each.
LimiterParams ==
    {[rate |-> 10, window |-> 60, burst |-> 10],
     [rate |-> 1, window |-> 49, burst |-> 1],
     [rate |-> 2, window |-> 4, burst |-> 2],
     [rate |-> 3, window |-> 2, burst |-> 2],
     [rate |-> 1, window |-> 2, burst |-> 3]}
LimiterKeys == {"c1"}
Seconds == {1, 6, 49}

InitLimiter ==
    /\ InitBackend
    /\ InitStage
    /\ limiter \in LimiterParams
    /\ buckets = EmptyDict
    /\ time_time = 0
    /\ log = [on |-> FALSE, entries |-> <<>>]
    /\ last_allowed = EmptyDict

NextLimiter ==
    \/ \E k \in LimiterKeys : Allow(k)
    \/ \E d \in Seconds : Advance(d)

SpecLimiter == InitLimiter /\ [][NextLimiter]_vars

\* Checks of two keys on one limiter, second by second, each check recorded
\* in log.
WindowKeys == {"c1", "c2"}

InitWindow ==
    /\ InitBackend
    /\ InitStage
    /\ limiter \in LimiterParams
    /\ buckets = EmptyDict
    /\ time_time = 0
    /\ log = [on |-> TRUE, entries |-> <<>>]
    /\ last_allowed = EmptyDict

NextWindow ==
    \/ \E k \in WindowKeys : Len(log.entries) < MaxWindowChecks /\ Allow(k)
    \/ time_time < MaxWindowClock /\ Advance(1)

SpecWindow == InitWindow /\ [][NextWindow]_vars

\* A burst on a limiter whose rate equals its burst: checks at one instant, then
\* one token period later, each check recorded in log.
InitBurst ==
    /\ InitBackend
    /\ InitStage
    /\ limiter \in {L \in LimiterParams : L.rate = L.burst /\ L.window % L.rate = 0}
    /\ buckets = EmptyDict
    /\ time_time = 0
    /\ log = [on |-> TRUE, entries |-> <<>>]
    /\ last_allowed = EmptyDict

NextBurst ==
    \/ \E k \in LimiterKeys : Allow(k)
    \/ AdvanceToken

SpecBurst == InitBurst /\ [][NextBurst]_vars

\* Each stage on its own, given Messages as typed.py declares them.
InitStages ==
    /\ InitBackend
    /\ limiter = rate_limit_init.limiter
    /\ buckets = EmptyDict
    /\ time_time = 0
    /\ log = [on |-> FALSE, entries |-> <<>>]
    /\ last_allowed = EmptyDict
    /\ rate_limit_enabled = rate_limit_init.enabled
    /\ middleware_stack = <<>>
    /\ \E users \in [Connections -> {None, "u1"}] :
          connection = [k \in Connections |->
                          [user_id |-> users[k], consumer |-> "core",
                           bytes_received |-> 0, last_heartbeat |-> 0,
                           last_activity |-> 0,
                           groups |-> {}, state |-> "CONNECTED", closed |-> <<>>]]
    /\ sent = [k \in Connections |-> <<>>]
    /\ consumers = [k \in Connections |-> NewConsumer]

ProcessAny(stage) ==
    \E k \in Connections, type \in {"ping", "pong", "connect", "chat"},
       size \in {max_message_size, max_message_size + 1},
       ttl \in {NoTTL, TTL(0), TTL(1)}, age \in {0, 1, 2},
       dumps_raises \in IF stage = "validation" THEN BOOLEAN ELSE {FALSE} :
        Process(stage, k,
                [type |-> type, size |-> size, ttl_seconds |-> ttl,
                 created_at |-> time_time - age, sender_id |-> k],
                dumps_raises)

NextStages ==
    \/ ProcessAny("auth")
    \/ ProcessAny("rate_limit")
    \/ ProcessAny("validation")
    \/ ProcessAny("logging")

SpecStages == InitStages /\ [][NextStages]_vars

\* Messages built at most MaxAge seconds ago, with no TTL or a TTL of up to
\* MaxTTL seconds, asked whether they have expired as the clock moves on.
InitMessage == InitBackend /\ InitPipeline

NextMessage ==
    \/ \E d \in Seconds : Advance(d)
    \/ \E type \in {"chat"}, ttl \in {NoTTL} \cup {TTL(s) : s \in 0..MaxTTL},
          age \in 0..MaxAge :
          /\ age <= time_time
          /\ IsExpired([type |-> type, size |-> 1, ttl_seconds |-> ttl,
                        created_at |-> time_time - age, sender_id |-> None])

SpecMessage == InitMessage /\ [][NextMessage]_vars

\* Two accepted connections, both served by the same consumer class and
\* entered in the registry under their user_id, joining and leaving groups and
\* being disconnected.
InitLifecycle ==
    /\ groups = EmptyDict
    /\ subscriptions = EmptyDict
    /\ lock = NoTask
    /\ channel_counter = 0
    /\ now_ms = 0
    /\ channels = EmptyDict
    /\ listeners = EmptyDict
    /\ queues = EmptyDict
    /\ delivery = NoDelivery
    /\ calls = [t \in Tasks |-> Idle]
    /\ ret = [op |-> "none"]
    /\ lastCall = [p \in Groups \X Channels |-> "none"]
    /\ issued = <<>>
    /\ limiter = rate_limit_init.limiter
    /\ buckets = EmptyDict
    /\ time_time = 0
    /\ log = [on |-> FALSE, entries |-> <<>>]
    /\ last_allowed = EmptyDict
    /\ rate_limit_enabled = rate_limit_init.enabled
    /\ middleware_stack = <<>>
    /\ sent = [k \in Connections |-> <<>>]
    /\ consumers = [k \in Connections |-> NewConsumer]
    /\ \E class \in {"core", "fastapi_channel"}, user \in {None, "u1"} :
          LET user_id(k) == IF k = "k1" THEN user ELSE "u1"
              R1 == registry_add_connection(
                       [connections |-> {}, connection_data |-> EmptyDict,
                        user_connections |-> EmptyDict],
                       "k1", user_id("k1"), EmptyDict, {}, 60).registry
              R2 == registry_add_connection(R1, "k2", user_id("k2"), EmptyDict, {},
                                            60).registry
          IN /\ connection = [k \in Connections |->
                                [user_id |-> user_id(k), consumer |-> class,
                                 bytes_received |-> 0, last_heartbeat |-> 0,
                                 last_activity |-> 0, groups |-> {},
                                 state |-> "CONNECTED", closed |-> <<>>]]
             /\ registry_connections = R2.connections
             /\ registry_connection_data = R2.connection_data
             /\ registry_user_connections = R2.user_connections
             /\ addedUnder = {<<k, user_id(k)>> : k \in {x \in Connections :
                                                          user_id(x) # None}}

NextLifecycle ==
    \/ \E k \in Connections, g \in Groups, fails \in BOOLEAN : JoinGroup(k, g, fails)
    \/ \E k \in Connections, g \in Groups, fails \in BOOLEAN : LeaveGroup(k, g, fails)
    \/ \E k \in Connections, hook \in {"pass", "leave_group"} : Disconnect(k, 1000, hook)

SpecLifecycle == InitLifecycle /\ [][NextLifecycle]_vars

\* The dispatch loop of connection k1, accepted one second ago and served by
\* either consumer class, with the stages in the recommended order, with two
\* of them in another order, or with none; k2 is another connection of the
\* same process.
MiddlewareStacks ==
    {<<"auth", "rate_limit", "validation", "logging">>, <<"validation", "auth">>, <<>>}

RawInputs ==
    {[kind |-> "malformed"], [kind |-> "array"]}
    \cup [kind : {"object"}, type : {"pong", "ping", "chat", None},
          size : {max_message_size, max_message_size + 1},
          ttl_seconds : {NoTTL, TTL(0 - 1), BadTTL}, sender_id : {None},
          priority : {None}, length : {1}]
    \cup [kind : {"object"}, type : {"pong", "ping", "chat", None},
          size : {max_message_size, max_message_size + 1},
          ttl_seconds : {NoTTL}, sender_id : {"k2"}, priority : {None},
          length : {1}]
    \cup [kind : {"object"}, type : {"pong", "chat"}, size : {max_message_size},
          ttl_seconds : {NoTTL, TTL(0 - 1)}, sender_id : {None},
          priority : {None, "unhashable"}, length : {2}]

HookRaises ==
    {NoExc, "AuthenticationError", "ValidationError", "MessageError", "RateLimitError",
     "RuntimeError", "JSONDecodeError"}

InitConsumer ==
    /\ InitBackend
    /\ limiter = rate_limit_init.limiter
    /\ buckets = EmptyDict
    /\ time_time = 0
    /\ log = [on |-> FALSE, entries |-> <<>>]
    /\ last_allowed = EmptyDict
    /\ rate_limit_enabled = rate_limit_init.enabled
    /\ middleware_stack \in MiddlewareStacks
    /\ \E user \in {None, "u1"}, consumer \in {"core", "fastapi_channel"} :
          connection = [k \in Connections |->
                          [user_id |-> IF k = "k1" THEN user ELSE "u2",
                           consumer |-> consumer, bytes_received |-> 0,
                           last_heartbeat |-> 0 - 1, last_activity |-> 0 - 1,
                           groups |-> {}, state |-> "CONNECTED", closed |-> <<>>]]
    /\ sent = [k \in Connections |-> <<>>]
    /\ consumers = [k \in Connections |-> NewConsumer]

\* (a failing json.dumps is tried with a receive hook that raises nothing: the
\* hook is not reached when the Validation stage fails, and without that stage
\* json.dumps is not called)
NextConsumer ==
    \E raw \in RawInputs, hook \in HookRaises, dumps_raises \in BOOLEAN :
        /\ dumps_raises => hook = NoExc
        /\ raw.kind # "object" => hook = NoExc /\ ~dumps_raises
        /\ (raw.kind = "object" /\ raw.priority # None) => hook = NoExc /\ ~dumps_raises
        /\ HandleMessage("k1", raw, hook, dumps_raises)

SpecConsumer == InitConsumer /\ [][NextConsumer]_vars

\* The whole backend.  The properties below are checked component by component,
\* under the specifications above.
Next ==
    \/ NextGroups
    \/ NextNewChannel
    \/ NextMemory
    \/ NextOrder
    \/ NextGroupSend
    \/ NextFanout
    \/ NextRegistry
    \/ NextFlush
    \/ NextLimiter
    \/ NextBurst
    \/ NextStages
    \/ NextConsumer
    \/ NextMessage
    \/ NextLifecycle
    \/ NextWindow

Spec == Init /\ [][Next]_vars

\* ------------------------------------------------------------------- claims
GroupMembers(g) == get_group_channels(groups, g).value

C2_KeyIffNonEmpty ==
    /\ \A g \in Groups : (g \in DOMAIN groups) <=> (GroupMembers(g) # {})
    /\ \A g \in DOMAIN groups : groups[g] # {}

C2_Witness ==
    /\ ret.op = "group_discard"
    /\ ret.args.group \in DOMAIN ret.before
    /\ ret.before[ret.args.group] = {ret.args.channel}
    /\ ret.args.group \notin DOMAIN groups
    /\ DOMAIN groups # {}

\* C3: group_add of a channel twice leaves the index that one group_add leaves,
\* and a group_add of a present member or a group_discard of an absent member (or
\* of an absent group) leaves the index unchanged and raises nothing.
C3_AddDiscardIdempotent ==
    /\ \A g \in Groups, c \in Channels :
          LET once == group_add(groups, g, c)
              twice == group_add(once.groups, g, c)
          IN /\ twice.groups = once.groups
             /\ once.exc = NoExc
             /\ twice.exc = NoExc
    /\ (ret.op = "group_add"
          /\ ret.args.channel \in DictGet(ret.before, ret.args.group, {}))
          => (groups = ret.before /\ ret.exc = NoExc)
    /\ (ret.op = "group_discard"
          /\ ret.args.channel \notin DictGet(ret.before, ret.args.group, {}))
          => (groups = ret.before /\ ret.exc = NoExc)

C3_Witness ==
    /\ ret.op = "group_discard"
    /\ ret.args.group \in DOMAIN ret.before
    /\ ret.args.channel \notin ret.before[ret.args.group]

\* C4: the values new_channel has returned are pairwise different, whatever the
\* prefixes, the clock and the order in which concurrent callers got the lock, and
\* every call took a fresh value of the counter.
C4_NewChannelDistinct ==
    /\ \A i, j \in DOMAIN issued : i # j => issued[i] # issued[j]
    /\ Len(issued) = channel_counter

C4_Witness ==
    /\ Len(issued) >= 2
    /\ \E t \in Tasks : calls[t].op = "new_channel" /\ calls[t].at = "lock"
    /\ lock # NoTask

\* the queues after message was put once on each queue in subs
Delivered(Q, subs, message) ==
    [q \in DOMAIN Q |-> IF q \in subs THEN Append(Q[q], message) ELSE Q[q]]

\* C5: a group_send in which the publish to k of the n members fails returns
\* without raising, has run the publish of every one of the other n-k members
\* (each put the message once on the queue subscribed to that member and touched
\* no other queue), and reports k failed of n total.
C5_GroupSendIsolatesFailures ==
    /\ ret.op = "group_send" =>
          /\ ret.exc = NoExc
          /\ ret.raised \cup ret.published = ret.channels
          /\ ret.raised \cap ret.published = {}
          /\ ret.report = IF ret.raised = {} THEN {}
                          ELSE {[failed |-> Cardinality(ret.raised),
                                 total |-> Cardinality(ret.channels),
                                 failed_channels |-> ret.raised]}
    /\ (ret.op = "publish" /\ ret.via # NoTask /\ ret.exc = NoExc) =>
          queues = Delivered(ret.before.queues,
                             DictGet(ret.before.listeners, ret.args.channel, {}),
                             ret.args.message)

C5_Witness ==
    /\ ret.op = "group_send"
    /\ Cardinality(ret.channels) = 3
    /\ Cardinality(ret.raised) = 1
    /\ \E w \in ret.report : w.failed = 1 /\ w.total = 3
    /\ \A c \in ret.published : c \in DOMAIN channels /\ queues[channels[c]] = <<ret.args.message>>

\* C6: a publish puts the message exactly once on every queue subscribed to the
\* channel and changes nothing else; on a channel with no subscription (never
\* subscribed, or unsubscribed) it changes no queue, creates none and raises
\* nothing.
C6_PublishToSubscribedOnly ==
    ret.op = "publish" =>
        LET b == ret.before
            subs == DictGet(b.listeners, ret.args.channel, {})
        IN /\ ret.exc = NoExc
           /\ channels = b.channels
           /\ listeners = b.listeners
           /\ queues = Delivered(b.queues, subs, ret.args.message)
           /\ ret.args.channel \in DOMAIN b.channels => subs = {b.channels[ret.args.channel]}
           /\ ret.args.channel \notin DOMAIN b.channels => queues = b.queues

C6_Witness ==
    /\ ret.op = "publish"
    /\ ret.args.channel \notin DOMAIN ret.before.channels
    /\ ret.args.channel \in DOMAIN ret.before.listeners
    /\ \E q \in DOMAIN queues : queues[q] # <<>>

\* C7: what a receive call hands back tells which of its three ends it took: a
\* message (a value that is not None), the timeout (TimeoutError raised), or the
\* channel having no queue (None returned); the timeout and the missing channel
\* never give the same result.
C7_ReceiveOutcomesDistinct ==
    ret.op = "receive" =>
        /\ (ret.path = "message") <=> (ret.exc = NoExc /\ ret.value \in Messages)
        /\ (ret.path = "timeout") <=> (ret.exc = "TimeoutError")
        /\ (ret.path = "no_channel") <=> (ret.exc = NoExc /\ ret.value = None)
        /\ ret.path = "timeout" => ret.args.timeout # None

C7_Witness ==
    /\ ret.op = "receive"
    /\ ret.path = "timeout"
    /\ ret.args.channel \in DOMAIN channels
    /\ queues[channels[ret.args.channel]] = <<>>

InUserIndex(connection_id) ==
    \E u \in DOMAIN registry_user_connections :
        connection_id \in registry_user_connections[u]

\* C8: a connection_id is in the user_id -> connections index exactly when it is
\* in the primary connection map.  The statement below follows from that one and
\* leaves out only the connections added with no user_id, which no index entry
\* can hold: every connection_id in the index is in the primary map, and every
\* connection_id the primary map holds with a user_id is in the index.
C8_IndexesAgree ==
    \A k \in Connections :
        /\ InUserIndex(k) => k \in DOMAIN registry_connection_data
        /\ (k \in DOMAIN registry_connection_data
              /\ registry_connection_data[k].user_id # None) => InUserIndex(k)

\* C9: registry_get_user_connections(u) returns exactly the connection_ids added
\* under u and not since removed.
C9_UserConnectionsAreLive ==
    ret.op = "registry_get_user_connections" =>
        ret.value = {k \in Connections : <<k, ret.args.user_id>> \in addedUnder}

\* C10: a registry_remove_connection of a connection_id that is nowhere in the
\* registry leaves the primary map, the connection set, the user index and the
\* connection count as they were and raises nothing, whatever user_id it is given.
C10_RemoveUnknownIsNoOp ==
    [][\A t \in Tasks :
         (/\ InBody(t, "registry_remove_connection")
          /\ calls'[t] = Idle
          /\ ~InRegistry(Registry, calls[t].args.connection_id))
         => /\ registry_connections' = registry_connections
            /\ registry_connection_data' = registry_connection_data
            /\ registry_user_connections' = registry_user_connections
            /\ registry_count_connections(Registry') = registry_count_connections(Registry)
            /\ ret'.exc = NoExc]_vars

C10_Witness ==
    /\ ret.op = "registry_remove_connection"
    /\ ~ret.known
    /\ ret.args.user_id \in DOMAIN registry_user_connections
    /\ registry_connections # {}

\* C11: once flush() has completed, the group index is empty, no channel has a
\* subscription or a delivery queue, and the registry is empty:
\* registry_count_connections is 0 and registry_get_user_connections is empty
\* for every user.
C11_FlushEmptiesBackend ==
    ret.op = "flush" =>
        /\ groups = EmptyDict
        /\ subscriptions = EmptyDict
        /\ \A c \in Channels : DictGet(listeners, c, {}) = {}
        /\ channels = EmptyDict
        /\ registry_count_connections(Registry) = 0
        /\ \A u \in Users : registry_get_user_connections(Registry, u) = {}

\* C12: with rate = burst = N and window W, the first N checks of a fresh key
\* at one instant are allowed and the (N+1)-th at that instant is denied; when
\* the following checks are made W/N seconds later, the first of them is
\* allowed and the next one at that instant is denied.
C12_BurstThenOneToken ==
    LET E == log.entries
        N == limiter.rate
        period == limiter.window \div limiter.rate
        at(i, t) == i <= Len(E) /\ E[i].now = t
    IN (log.on /\ E # <<>>) =>
         LET t0 == E[1].now
         IN /\ \A i \in 1..N : at(i, t0) => E[i].value
            /\ at(N + 1, t0) => ~E[N + 1].value
            /\ \A j \in (N + 2)..Len(E) :
                  (/\ \A i \in 1..(j - 1) : E[i].now = t0
                   /\ E[j].now = t0 + period)
                  => /\ E[j].value
                     /\ at(j + 1, t0 + period) => ~E[j + 1].value

\* C13: a check of a key not seen before stores (now, burst - 1) and allows; a
\* check at time t of a key stored as (last, tokens) computes
\* tokens' = min(burst, tokens + floor((t - last) * rate / window)) and, when
\* tokens' > 0, stores (t, tokens' - 1) and allows, otherwise stores (t, 0) and
\* denies.
C13_ExactTransition ==
    [][\A k \in LimiterKeys :
         (time_time' = time_time /\ ret'.op = "allow" /\ ret'.args.key = k)
         => IF k \notin DOMAIN buckets
            THEN /\ buckets'[k] = [last_check |-> time_time, tokens |-> limiter.burst - 1]
                 /\ ret'.value
            ELSE LET floor == ((time_time - buckets[k].last_check) * limiter.rate)
                                \div limiter.window
                     tokens == Min(limiter.burst, buckets[k].tokens + floor)
                 IN IF tokens > 0
                    THEN /\ buckets'[k] = [last_check |-> time_time, tokens |-> tokens - 1]
                         /\ ret'.value
                    ELSE /\ buckets'[k] = [last_check |-> time_time, tokens |-> 0]
                         /\ ~ret'.value]_vars

\* C14: the tokens credited over an interval depend on its length only, not on
\* the checks made inside it.  So a check is denied only when less than
\* window / rate seconds, the time one token takes, have passed since the key
\* last consumed a token.
C14_RefillIndependentOfChecks ==
    \A k \in LimiterKeys :
        (ret.op = "allow" /\ ret.args.key = k /\ ~ret.value)
        => (buckets[k].last_check - last_allowed[k]) * limiter.rate < limiter.window

\* C15: the Authentication stage returns a ping, pong or connect message
\* unchanged whatever the connection's user_id; for any other type it raises
\* AuthenticationError when the connection has no user_id and returns the
\* message unchanged when it has one.
C15_AuthenticationPolicy ==
    (ret.op = "process" /\ ret.stage = "auth") =>
        LET m == ret.args.message
        IN IF m.type \in {"ping", "pong", "connect"}
           THEN ret.exc = NoExc /\ ret.value = <<m>>
           ELSE IF ret.user_id = None
                THEN ret.exc = "AuthenticationError" /\ ret.value = <<>>
                ELSE ret.exc = NoExc /\ ret.value = <<m>>

C15_Witness ==
    /\ ret.op = "process"
    /\ ret.stage = "auth"
    /\ ret.args.message.type = "connect"
    /\ ret.user_id = None
    /\ ret.exc = NoExc

\* C16: the Validation stage, for a message of any type that serializes,
\* raises ValidationError when the serialized size exceeds the configured
\* maximum, returns nothing and raises nothing when the size is within the
\* maximum and the TTL has expired, and otherwise returns the message unchanged.
C16_ValidationPolicy ==
    (ret.op = "process" /\ ret.stage = "validation" /\ ~ret.args.dumps_raises) =>
        LET m == ret.args.message
            expired == /\ m.ttl_seconds.kind = "float"
                       /\ ret.now - m.created_at > m.ttl_seconds.value
        IN IF m.size > max_message_size
           THEN ret.exc = "ValidationError" /\ ret.value = <<>>
           ELSE IF expired
                THEN ret.exc = NoExc /\ ret.value = <<>>
                ELSE ret.exc = NoExc /\ ret.value = <<m>>

C16_Witness ==
    /\ ret.op = "process"
    /\ ret.stage = "validation"
    /\ ~ret.args.dumps_raises
    /\ ret.args.message.type = "ping"
    /\ ret.args.message.size = max_message_size
    /\ ret.args.message.ttl_seconds = TTL(1)
    /\ ret.now - ret.args.message.created_at = 2
    /\ ret.exc = NoExc
    /\ ret.value = <<>>

\* C17: with the stage built from the shipped Settings, the RateLimit stage
\* returns a ping or pong without touching any bucket; for any other message
\* it makes the token-bucket check of the connection's channel_name, returns
\* the message when the check allows and raises RateLimitError when the
\* bucket is exhausted.
C17_RateLimitPolicy ==
    (ret.op = "process" /\ ret.stage = "rate_limit") =>
        LET m == ret.args.message
            check == allow(limiter, ret.before, ret.args.connection, ret.now)
        IN IF m.type \in {"ping", "pong"}
           THEN ret.exc = NoExc /\ ret.value = <<m>> /\ buckets = ret.before
           ELSE /\ buckets = check.buckets
                /\ check.value => (ret.exc = NoExc /\ ret.value = <<m>>)
                /\ ~check.value => (ret.exc = "RateLimitError" /\ ret.value = <<>>)

\* C18: when the raw input is no JSON, handle_message returns normally, having
\* sent one error response built from a ValidationError (INVALID_JSON) on its
\* own connection; nothing propagates to its caller.
C18_MalformedInputAnswered ==
    (ret.op = "handle_message" /\ ret.args.raw.kind = "malformed") =>
        /\ ret.exc = NoExc
        /\ Len(ret.responses) = 1
        /\ ret.responses[1].error = "ValidationError"

\* C19: when a stage or the receive hook raises AuthenticationError,
\* ValidationError, MessageError or RateLimitError, handle_message returns
\* normally, having sent exactly the error response built from it on its own
\* connection; what was sent on, and the state of, every other connection is
\* as before.
C19_TypedErrorsAnswered ==
    [][(/\ ret'.op = "handle_message"
        /\ ret'.at \in {"stage", "hook"}
        /\ ret'.raised \in {"AuthenticationError", "ValidationError", "MessageError",
                            "RateLimitError"})
       => /\ ret'.exc = NoExc
          /\ ret'.responses = <<[error |-> ret'.raised]>>
          /\ sent'[ret'.args.connection] = sent[ret'.args.connection] \o ret'.responses
          /\ \A j \in Connections \ {ret'.args.connection} :
                sent'[j] = sent[j] /\ connection'[j] = connection[j]]_vars

\* C20: when a stage or the receive hook fails with anything but the four
\* typed errors, handle_message raises to its caller and sends no error
\* response.
C20_UntypedFailuresPropagate ==
    (/\ ret.op = "handle_message"
     /\ ret.at \in {"stage", "hook"}
     /\ \/ ret.cause # NoExc
        \/ ret.raised \notin {"AuthenticationError", "ValidationError", "MessageError",
                               "RateLimitError"})
    => ret.exc # NoExc /\ ret.responses = <<>>


\* C21: when the parsed type is pong, handle_message sets the connection's
\* last_heartbeat to the current time and does nothing else: no stage runs,
\* the receive hook is not called, nothing is sent or raised, no bucket
\* changes, and bytes_received and last_activity are as before.
C21_PongOnlyHeartbeat ==
    [][(/\ ret'.op = "handle_message"
        /\ ret'.args.raw.kind = "object"
        /\ ret'.args.raw.type = "pong")
       => LET k == ret'.args.connection
          IN /\ connection'[k] = [connection[k] EXCEPT !.last_heartbeat = time_time]
             /\ ret'.ran = <<>>
             /\ ~ret'.hook_called
             /\ ret'.exc = NoExc
             /\ sent' = sent
             /\ buckets' = buckets
             /\ \A j \in Connections \ {k} : connection'[j] = connection[j]]_vars

C21_Witness ==
    /\ ret.op = "handle_message"
    /\ ret.args.raw.kind = "object"
    /\ ret.args.raw.type = "pong"
    /\ connection[ret.args.connection].last_heartbeat = time_time
    /\ connection[ret.args.connection].last_activity # time_time
    /\ connection[ret.args.connection].bytes_received = 0


\* C22: the Message that handle_message gives to the stack has sender_id equal
\* to the channel_name of the handling connection, and the payload's own
\* sender_id has no influence on it: the same payload with any other
\* sender_id gives the same Message.
C22_SenderIdForced ==
    (ret.op = "handle_message" /\ ret.message # <<>>) =>
        /\ ret.message[1].sender_id = ret.args.connection
        /\ \A s \in {None} \cup Connections :
              make_message(ret.args.connection,
                           [ret.args.raw EXCEPT !.sender_id = s],
                           ret.message[1].created_at) = ret.message[1]

C22_Witness ==
    /\ ret.op = "handle_message"
    /\ ret.message # <<>>
    /\ ret.args.raw.sender_id = "k2"
    /\ ret.args.connection = "k1"
    /\ ret.hook_called
    /\ ret.received[1].sender_id = "k1"


\* C23: is_expired() of a Message without ttl_seconds is false at every
\* elapsed time; of a Message with ttl_seconds it is true exactly when the
\* time since created_at is strictly greater than ttl_seconds, so false when
\* the elapsed time equals the TTL.
C23_ExpiredStrictlyAfterTTL ==
    ret.op = "is_expired" =>
        LET m == ret.args.message
        IN /\ ret.exc = NoExc
           /\ IF m.ttl_seconds.kind = "none"
              THEN ret.value = FALSE
              ELSE ret.value <=> (ret.now - m.created_at > m.ttl_seconds.value)

C23_Witness ==
    /\ ret.op = "is_expired"
    /\ ret.args.message.ttl_seconds = TTL(5)
    /\ ret.now - ret.args.message.created_at = 5
    /\ ret.value = FALSE


\* C24: a disconnect of a connection that is already DISCONNECTED raises
\* nothing and changes nothing: the group index, the registry and the
\* connection are as after the first call, and on_disconnect, the consumer's
\* cleanup, is not run again.
C24_DisconnectIdempotent ==
    [][(ret'.op = "disconnect" /\ ret'.again)
       => LET k == ret'.args.connection
          IN /\ ret'.exc = NoExc
             /\ groups' = groups
             /\ registry_connections' = registry_connections
             /\ registry_connection_data' = registry_connection_data
             /\ registry_user_connections' = registry_user_connections
             /\ connection' = connection
             /\ consumers'[k].on_disconnect_calls = consumers[k].on_disconnect_calls]_vars


\* C25: a join_group or leave_group whose backend call fails raises and leaves
\* the consumer's set of joined groups, the connection's mirror and the
\* backend's index as they were; one whose backend call succeeds has changed
\* the index and the local sets alike.
C25_JoinLeaveAllOrNothing ==
    [][(ret'.op \in {"join_group", "leave_group"})
       => LET k == ret'.args.connection
              g == ret'.args.group
              member == g \in DOMAIN groups' /\ k \in groups'[g]
          IN IF ret'.exc # NoExc
             THEN /\ consumers' = consumers
                  /\ connection' = connection
                  /\ groups' = groups
             ELSE /\ member <=> (ret'.op = "join_group")
                  /\ (g \in connection'[k].groups) <=> member
                  /\ connection[k].consumer = "core"
                        => ((g \in consumers'[k].groups) <=> member)]_vars

C25_Witness ==
    /\ ret.op = "join_group"
    /\ ret.exc # NoExc
    /\ connection[ret.args.connection].consumer = "core"
    /\ ret.args.group \notin consumers[ret.args.connection].groups
    /\ consumers[ret.args.connection].groups # {}


\* C26: a receive that waits with no timeout can always still be completed:
\* the queue it waits on holds a message or is subscribed to some channel, so
\* that a publish can reach it.  (A receive waiting on an empty queue that no
\* channel refers to never returns.)
C26_ReceiveNeverStranded ==
    \A t \in Tasks :
        (calls[t].op = "receive" /\ calls[t].args.timeout = None) =>
            \/ queues[calls[t].queue] # <<>>
            \/ \E c \in DOMAIN listeners : calls[t].queue \in listeners[c]


\* C27: the stages that process a message are the first ones of the
\* configured stack, in its order, each given what the one before returned;
\* when one of them returns nothing, no later stage runs, the receive hook is
\* not called, nothing is sent and nothing is raised; the receive hook is
\* called only when every stage of the stack returned the message, and with
\* that message.
C27_DropIsFinal ==
    (ret.op = "handle_message" /\ ret.message # <<>>) =>
        LET k == ret.args.connection
            m == ret.message[1]
            n == Len(ret.ran)
            out(i) == stage_process(ret.ran[i], m, k, buckets, time_time, FALSE).result
            dropped == ret.at = "none" /\ ~ret.hook_called
        IN /\ n <= Len(middleware_stack)
           /\ ret.ran = SubSeq(middleware_stack, 1, n)
           /\ \A i \in 1..(n - 1) : out(i) = Returned(m)
           /\ dropped => /\ n >= 1
                         /\ out(n) = Dropped
                         /\ ret.exc = NoExc
                         /\ ret.responses = <<>>
                         /\ ret.received = <<>>
           /\ ret.hook_called => /\ n = Len(middleware_stack)
                                 /\ \A i \in 1..n : out(i) = Returned(m)
                                 /\ ret.received = <<m>>

C27_Witness ==
    /\ ret.op = "handle_message"
    /\ ret.message # <<>>
    /\ middleware_stack = <<"auth", "rate_limit", "validation", "logging">>
    /\ ret.ran = <<"auth", "rate_limit", "validation">>
    /\ ret.at = "none"
    /\ ~ret.hook_called
    /\ ret.responses = <<>>


\* C28: at every moment the token count stored for a key lies in
\* 0..burst - 1, and among the checks of one key made from one check up to a
\* later one, T seconds apart, at most burst + floor(T * rate / window) were
\* allowed.
AllowedBetween(key, i, j) ==
    Cardinality({n \in i..j : log.entries[n].key = key /\ log.entries[n].value})

C28_TokensAndRateBounded ==
    /\ \A key \in DOMAIN buckets : buckets[key].tokens \in 0..(limiter.burst - 1)
    /\ \A i \in 1..Len(log.entries), j \in 1..Len(log.entries) :
          i <= j =>
             \A key \in WindowKeys :
                AllowedBetween(key, i, j)
                   <= limiter.burst
                      + ((log.entries[j].now - log.entries[i].now) * limiter.rate)
                           \div limiter.window

C28_Witness ==
    /\ limiter = [rate |-> 2, window |-> 4, burst |-> 2]
    /\ \E i \in 1..Len(log.entries), j \in 1..Len(log.entries) :
          /\ i < j
          /\ log.entries[j].now - log.entries[i].now = 2
          /\ AllowedBetween("c1", i, j) = 3
          /\ \E n \in i..j : log.entries[n].key = "c1" /\ ~log.entries[n].value


\* C29: what a key's checks return, and the bucket stored for it, are what
\* they would be had no other key ever been checked: replaying the key's own
\* checks, at their times, on a limiter with no bucket gives the same
\* outcomes and the same bucket.
RECURSIVE Alone(_, _)
Alone(own, n) ==
    IF n = 0 THEN [buckets |-> EmptyDict, values |-> <<>>]
    ELSE LET before == Alone(own, n - 1)
             r == allow(limiter, before.buckets, own[n].key, own[n].now)
         IN [buckets |-> r.buckets, values |-> Append(before.values, r.value)]

C29_KeysIndependent ==
    \A key \in WindowKeys :
        LET IsOwn(e) == e.key = key
            own == SelectSeq(log.entries, IsOwn)
            alone == Alone(own, Len(own))
        IN /\ alone.values = [n \in 1..Len(own) |-> own[n].value]
           /\ own # <<>> => (key \in DOMAIN buckets /\ buckets[key] = alone.buckets[key])
           /\ own = <<>> => key \notin DOMAIN buckets

C29_Witness ==
    /\ limiter = [rate |-> 2, window |-> 4, burst |-> 2]
    /\ \E i \in 1..Len(log.entries), j \in 1..Len(log.entries) :
          /\ i < j
          /\ log.entries[i].key = "c1" /\ ~log.entries[i].value
          /\ log.entries[j].key = "c2" /\ log.entries[j].value
          /\ log.entries[j].now = log.entries[i].now


\* C30: a subscribe to a channel that is subscribed changes nothing, so the
\* channel has one queue however often it was subscribed, and a publish puts
\* exactly one copy of the message on it; one unsubscribe leaves the channel
\* with no queue and no listener, whatever the queue held; a publish to a
\* channel without a queue changes no queue; and the subscribe after an
\* unsubscribe leaves the channel with an empty queue.
C30_SubscribeNotCounted ==
    [][/\ (ret'.op = "subscribe" /\ calls' = calls) =>
            LET c == ret'.args.channel
            IN /\ c \in DOMAIN channels'
               /\ listeners'[c] = {channels'[c]}
               /\ IF c \in DOMAIN channels
                  THEN /\ channels' = channels
                       /\ listeners' = listeners
                       /\ queues' = queues
                  ELSE queues'[channels'[c]] = <<>>
       /\ ret'.op = "unsubscribe" =>
            LET c == ret'.args.channel
            IN /\ c \notin DOMAIN channels'
               /\ DictGet(listeners', c, {}) = {}
       /\ (ret'.op = "publish" /\ calls' = calls) =>
            LET c == ret'.args.channel
            IN IF c \in DOMAIN channels
               THEN queues' = [queues EXCEPT ![channels[c]] =
                                  Append(@, ret'.args.message)]
               ELSE queues' = queues]_vars

C30_Witness ==
    /\ ret.op = "subscribe"
    /\ queues[channels[ret.args.channel]] = <<>>
    /\ \E t \in Tasks :
          /\ calls[t].op = "receive"
          /\ calls[t].args.channel = ret.args.channel
          /\ calls[t].queue # channels[ret.args.channel]
          /\ queues[calls[t].queue] # <<>>


\* C31: while a channel is subscribed, the messages whose publish to it
\* completed since the subscription began are, in that order, the messages
\* received from it since then followed by the messages still waiting in its
\* queue: each is received once, in publish order, and none is lost.
C31_FifoExactlyOnce ==
    /\ DOMAIN delivery.published = DOMAIN channels
    /\ \A c \in DOMAIN channels :
          delivery.published[c] = delivery.received[c] \o queues[channels[c]]

C31_Witness ==
    /\ ret.op = "receive"
    /\ ret.path = "message"
    /\ "c1" \in DOMAIN channels
    /\ delivery.published["c1"] = <<"m2", "m1", "m2">>
    /\ delivery.received["c1"] = <<"m2", "m1">>
    /\ queues[channels["c1"]] = <<"m2">>

\* the channels whose last completed call on group g was a group_add
AddedLast(g) == {c \in Channels : lastCall[<<g, c>>] = "add"}

\* C32: a group_send publishes to the channels that are members of the group
\* when it is invoked, whatever group_add and group_discard calls complete
\* while it runs: its set of targets is the set of channels last added to the
\* group and not since discarded, and stays that set; each child publish goes
\* to one target not yet served and puts the message on that channel's
\* subscribed queues only; a target with no subscription gets nothing, is not
\* a failure and does not stop the others; the call ends having served every
\* target, reporting the failed publishes only.
C32_FanOutToMembersAtInvocation ==
    [][\A t \in SenderTasks :
          /\ (calls[t] = Idle /\ calls'[t].op = "group_send") =>
                /\ calls'[t].channels = AddedLast(calls'[t].args.group)
                /\ calls'[t].channels # {}
                /\ calls'[t].results = EmptyDict
                /\ queues' = queues
          /\ (calls[t] = Idle /\ calls' = calls /\ ret'.op = "group_send") =>
                /\ ret'.channels = AddedLast(ret'.args.group)
                /\ queues' = queues
          /\ (calls[t].op = "group_send" /\ calls'[t].op = "group_send") =>
                /\ calls'[t].channels = calls[t].channels
                /\ calls'[t].args = calls[t].args
                /\ calls'[t] # calls[t] =>
                      \E c \in calls[t].channels \ DOMAIN calls[t].results :
                         LET subs == DictGet(listeners, c, {})
                             failed == calls'[t].results[c] = "exception"
                         IN /\ DOMAIN calls'[t].results = DOMAIN calls[t].results \cup {c}
                            /\ \A d \in DOMAIN calls[t].results :
                                  calls'[t].results[d] = calls[t].results[d]
                            /\ subs = {} => ~failed /\ queues' = queues
                            /\ queues' = IF failed THEN queues
                                         ELSE Delivered(queues, subs, calls[t].args.message)
          /\ (calls[t].op = "group_send" /\ calls'[t] = Idle) =>
                /\ ret'.op = "group_send"
                /\ ret'.exc = NoExc
                /\ ret'.channels = calls[t].channels
                /\ DOMAIN calls[t].results = calls[t].channels
                /\ ret'.report =
                      LET failed == {c \in calls[t].channels :
                                        calls[t].results[c] = "exception"}
                      IN IF failed = {} THEN {}
                         ELSE {[failed |-> Cardinality(failed),
                                total |-> Cardinality(calls[t].channels),
                                failed_channels |-> failed]}
                /\ queues' = queues]_vars

\* a group_send to g1 has ended without a failure: c1, discarded before it was
\* invoked, got nothing though it is subscribed; c2, a member, got the message;
\* c3, a member with no subscription, was skipped
C32_Witness ==
    /\ ret.op = "group_send"
    /\ ret.args.group = "g1"
    /\ lastCall[<<"g1", "c1">>] = "discard"
    /\ ret.channels = {"c2", "c3"}
    /\ ret.report = {}
    /\ "c1" \in DOMAIN channels /\ queues[channels["c1"]] = <<>>
    /\ "c2" \in DOMAIN channels /\ queues[channels["c2"]] = <<ret.args.message>>
    /\ "c3" \notin DOMAIN channels

\* C33: a handle_message call whose input parses into an envelope of a type
\* other than "pong" adds the input's byte length to the connection's
\* bytes_received and sets its last_activity to the time of the call, whatever
\* the stages and the receive hook then do with the message; a call with
\* malformed input, or with a pong, changes neither.
C33_CountedBeforePipeline ==
    [][LET k == ret'.args.connection
           raw == ret'.args.raw
       IN ret'.op = "handle_message" =>
            IF raw.kind = "object" /\ raw.type # "pong"
            THEN /\ connection'[k].bytes_received =
                        connection[k].bytes_received + raw.length
                 /\ connection'[k].last_activity = time_time
            ELSE /\ connection'[k].bytes_received = connection[k].bytes_received
                 /\ connection'[k].last_activity = connection[k].last_activity]_vars

====
